---- MODULE Spec2Model ----
(***************************************************************************)
(* Model of the backend request path of go-angular-boilerplate:            *)
(*   - the per-client token-bucket rate limiter (RateLimiter),             *)
(*   - the JWT authentication middleware with its JWKS key cache,          *)
(*   - the middleware chain that NewServer builds around the API routes.   *)
(*                                                                         *)
(* Strings are TLA+ strings; a Go map is a function whose DOMAIN is the    *)
(* set of keys present.  Time is counted in whole seconds.                 *)
(***************************************************************************)
EXTENDS Integers, Sequences, FiniteSets, TLC

VARIABLES
    rps,        \* RateLimiter.rps
    burst,      \* RateLimiter.burst
    limiters,   \* RateLimiter.limiters : key -> token bucket
    now,        \* wall clock, seconds
    log,        \* one record per request served by RateLimiter.Middleware
    ipReq,      \* the request handed to getClientIP
    ipOut,      \* what getClientIP returned for it
    authCfg,    \* Middleware.config (config.AuthConfig)
    keys,       \* Middleware.jwksCache.keys : kid -> RSA public key
    jwksServer, \* what the JWKS endpoint answers at the moment
    preload,    \* TRUE while the start-up "go m.refreshJWKS()" has not run
    authSeq,    \* flips each time Authenticate has served a request
    authReq,    \* the Authorization header of the last request served
    authResp,   \* the response to it
    failedOnce, \* TRUE once a refresh triggered by a request has failed
    pipeCfg,    \* what NewServer was given: RateLimit.Enabled and the CORS config
    pipeReq,    \* the request in the chain
    pc,         \* the stage that is running, or "return", "panic", "idle"
    stack,      \* the handlers that have been called and have not returned
    trace,      \* the stages the request has entered, in order
    answeredBy, \* the middleware that answered instead of calling next, or ""
    resp,       \* the response as the client sees it
    rwStatus,   \* responseWriter.statusCode of the logging middleware
    accessLog,  \* the "HTTP request" records written by loggingMiddleware
    panicLog,   \* number of "panic recovered" records written
    served,     \* number of requests the chain has finished
    projects,   \* the "projects" collection: ObjectID -> document
    tasks,      \* the "tasks" collection: ObjectID -> document
    nextOid,    \* number of ObjectIDs primitive.NewObjectID has handed out
    dbUp,       \* whether the document store answered during the last request
    apiReq,     \* the last request a resource handler has served
    apiResp,    \* the response to it
    apiCalls,   \* the repository methods the handler called for it, in order
    apiSeq,     \* number of requests the resource handlers have served
    lastCreated, \* the project the last 201 answer described, while no update
                \* or delete of it has succeeded since
    procs,      \* the goroutines that run concurrently: position and locals
    mu,         \* the sync.RWMutex of the structure the goroutines share
    heap        \* the objects the goroutines have allocated, by address

rlVars == <<rps, burst, limiters, now, log>>
ipVars == <<ipReq, ipOut>>
authVars == <<authCfg, keys, jwksServer, preload, authSeq, authReq, authResp,
              failedOnce>>

pipeVars == <<pipeCfg, pipeReq, pc, stack, trace, answeredBy, resp, rwStatus,
              accessLog, panicLog, served>>

apiVars == <<projects, tasks, nextOid, dbUp, apiReq, apiResp, apiCalls, apiSeq,
             lastCreated>>

goVars == <<procs, mu, heap>>

vars == <<rps, burst, limiters, now, log, ipReq, ipOut,
          authCfg, keys, jwksServer, preload, authSeq, authReq, authResp,
          failedOnce,
          pipeCfg, pipeReq, pc, stack, trace, answeredBy, resp, rwStatus,
          accessLog, panicLog, served,
          projects, tasks, nextOid, dbUp, apiReq, apiResp, apiCalls, apiSeq,
          lastCreated, procs, mu, heap>>

(***************************************************************************)
(* Bounds                                                                  *)
(***************************************************************************)
MaxBurst == 2
MaxRps == 2
MaxTime == 1
MaxReqs == 3
MaxPipeReqs == 2

(***************************************************************************)
(* HTTP status codes used by the handlers                                  *)
(***************************************************************************)
StatusOK == 200
StatusTooManyRequests == 429
StatusUnauthorized == 401
StatusNoContent == 204
StatusNotFound == 404
StatusInternalServerError == 500
StatusBadRequest == 400
StatusCreated == 201

Min(a, b) == IF a < b THEN a ELSE b

EmptyMap == [k \in {} |-> 0]

\* The element of a one-element set.  "Only({e(x) : x \in {v}})" is e(v) with
\* v computed once.
Only(S) == CHOOSE x \in S : TRUE

(***************************************************************************)
(* net/http: Header.Get returns the first value stored under the name, or  *)
(* the empty string when there is none.                                    *)
(***************************************************************************)
HeaderGet(h, name) ==
    IF name \in DOMAIN h /\ Len(h[name]) > 0 THEN h[name][1] ELSE ""

(***************************************************************************)
(* Rate limiter                                                            *)
(***************************************************************************)

\* Requests seen by the rate limiter: a transport address "ip:port" and the
\* two proxy headers.
ClientIPs == {"10.0.0.1", "10.0.0.2"}
ClientPorts == {"5000", "5001"}

HostPort(ip, port) == ip \o ":" \o port

RemoteAddrs ==
    {HostPort("10.0.0.1", "5000"), HostPort("10.0.0.1", "5001"),
     HostPort("10.0.0.2", "5000")}

\* The host part of the transport addresses above (net.SplitHostPort).
HostOf(addr) ==
    CHOOSE ip \in ClientIPs : \E p \in ClientPorts : addr = HostPort(ip, p)

RLRequests ==
    {[RemoteAddr |-> a,
      Header |-> [n \in {"X-Forwarded-For", "X-Real-IP"} |->
                    IF n = "X-Forwarded-For" THEN xff ELSE xri]] :
        a \in RemoteAddrs,
        xff \in {<<>>, <<"10.0.0.1">>},
        xri \in {<<>>, <<"10.0.0.2">>}}

\* TRUE when the request carries neither proxy header.
Direct(r) ==
    /\ HeaderGet(r.Header, "X-Forwarded-For") = ""
    /\ HeaderGet(r.Header, "X-Real-IP") = ""

getClientIPRealFirst(r) ==
    LET xff == HeaderGet(r.Header, "X-Forwarded-For")
        xri == HeaderGet(r.Header, "X-Real-IP")
    IN  IF xri # "" THEN xri
        ELSE IF xff # "" THEN xff
        ELSE r.RemoteAddr

getClientIP(r) ==
    LET xff == HeaderGet(r.Header, "X-Forwarded-For")
        xri == HeaderGet(r.Header, "X-Real-IP")
    IN  IF xff # "" THEN xff
        ELSE IF xri # "" THEN xri
        ELSE r.RemoteAddr

\* rate.NewLimiter(rate.Limit(rl.rps), rl.burst): a full bucket.
NewLimiter(r, b) == [limit |-> r, burst |-> b, tokens |-> b, last |-> 0]

\* rate.Limiter.Allow at time t: refill for the elapsed time, capped at the
\* burst, then withdraw one token if there is one.  A refused call leaves
\* the bucket as it was.
AllowFor(lim, t, cost) ==
    LET elapsed == IF t > lim.last THEN t - lim.last ELSE 0
        filled == Min(lim.burst, lim.tokens + elapsed * lim.limit)
    IN  IF filled - 1 < 0
        THEN [ok |-> FALSE, lim |-> lim]
        ELSE [ok |-> TRUE,
              lim |-> [lim EXCEPT !.tokens = filled - cost, !.last = t]]

AllowNoWithdraw(lim, t) == AllowFor(lim, t, 0)

Allow(lim, t) == AllowFor(lim, t, 1)

\* RateLimiter.getLimiter: look the key up, create the bucket on a miss.
\* The *rate.Limiter it returns is the map slot `slot` of `limiters`.
getLimiterAt(m, slot) ==
    IF slot \in DOMAIN m
    THEN [slot |-> slot, limiters |-> m]
    ELSE [slot |-> slot, limiters |-> (slot :> NewLimiter(rps, burst)) @@ m]

getLimiterShared(m, ip) == getLimiterAt(m, "*")

getLimiter(m, ip) == getLimiterAt(m, ip)

\* The handler returned by RateLimiter.Middleware, wrapped around a next
\* handler that answers 200.
RLServe(m, r, t) ==
    LET ip == getClientIP(r)
        g == getLimiter(m, ip)
        a == Allow(g.limiters[g.slot], t)
    IN  [limiters |-> [g.limiters EXCEPT ![g.slot] = a.lim],
         key |-> ip,
         status |-> IF a.ok THEN StatusOK ELSE StatusTooManyRequests,
         nextRan |-> a.ok]

NoClaims == [Subject |-> "", Email |-> "", Name |-> "", ClientID |-> ""]

NoResponse == [status |-> 0, nextRan |-> FALSE, hasClaims |-> FALSE,
               ctx |-> NoClaims, refreshed |-> "none"]

\* The authentication middleware is not part of the run.
AuthIdle ==
    /\ authCfg = [Enabled |-> FALSE, Issuer |-> "", JWKSURL |-> ""]
    /\ keys = EmptyMap
    /\ jwksServer = [reach |-> FALSE, status |-> 0, json |-> FALSE, doc |-> <<>>]
    /\ preload = FALSE
    /\ authSeq = 0
    /\ authReq = <<>>
    /\ authResp = NoResponse
    /\ failedOnce = FALSE

\* An http.ResponseWriter on which nothing has been written.
NoResp == [status |-> 0, ctype |-> "", body |-> <<>>, allowOrigin |-> <<>>,
           cors |-> {}]

NoPipeRequest == [Method |-> "", Path |-> "", RemoteAddr |-> "",
                  Header |-> EmptyMap, Authorization |-> <<>>, Origin |-> <<>>]

\* The middleware chain is not part of the run.
PipeIdle ==
    /\ pipeCfg = [RateLimit |-> FALSE, AllowedOrigins |-> <<>>,
                  AllowedMethods |-> <<>>, AllowedHeaders |-> <<>>,
                  ExposedHeaders |-> <<>>, AllowCredentials |-> FALSE,
                  MaxAge |-> 0]
    /\ pipeReq = NoPipeRequest
    /\ pc = "idle"
    /\ stack = <<>>
    /\ trace = <<>>
    /\ answeredBy = ""
    /\ resp = NoResp
    /\ rwStatus = 0
    /\ accessLog = <<>>
    /\ panicLog = 0
    /\ served = 0

\* No request to a resource handler, and no project.
NoApiRequest == [op |-> "", id |-> "", body |-> [json |-> FALSE, members |-> <<>>]]

NoProject == [ID |-> "", Name |-> "", Description |-> "", CreatedAt |-> 0,
              UpdatedAt |-> 0]

\* The resource handlers are not part of the run.
ApiIdle ==
    /\ projects = EmptyMap
    /\ tasks = EmptyMap
    /\ nextOid = 0
    /\ dbUp = TRUE
    /\ apiReq = NoApiRequest
    /\ apiResp = NoResp
    /\ apiCalls = <<>>
    /\ apiSeq = 0
    /\ lastCreated = NoProject

\* A sync.RWMutex: the goroutine that has called Lock and holds or awaits
\* the lock (0 when there is none), whether it holds it, the goroutines that
\* hold a read lock, and those whose RLock waits for the writer to unlock.
Unlocked == [w |-> 0, held |-> FALSE, readers |-> {}, waiting |-> {}]

\* No goroutines run side by side.
GoIdle ==
    /\ procs = <<>>
    /\ mu = Unlocked
    /\ heap = <<>>

NoRequest == [RemoteAddr |-> "", Header |-> EmptyMap]

InitRL ==
    /\ ApiIdle
    /\ GoIdle
    /\ rps \in 1..MaxRps
    /\ burst \in 0..MaxBurst
    /\ limiters = EmptyMap
    /\ now = 0
    /\ log = <<>>
    /\ ipReq = NoRequest
    /\ ipOut = ""
    /\ AuthIdle
    /\ PipeIdle

RLRequest(r) ==
    /\ UNCHANGED apiVars
    /\ UNCHANGED goVars
    /\ Len(log) < MaxReqs
    /\ LET s == RLServe(limiters, r, now)
       IN  /\ limiters' = s.limiters
           /\ log' = Append(log, [host |-> HostOf(r.RemoteAddr),
                                  direct |-> Direct(r),
                                  key |-> s.key, t |-> now,
                                  status |-> s.status, nextRan |-> s.nextRan])
    /\ UNCHANGED <<rps, burst, now>>
    /\ UNCHANGED ipVars
    /\ UNCHANGED pipeVars
    /\ UNCHANGED authVars

Tick ==
    /\ UNCHANGED apiVars
    /\ UNCHANGED goVars
    /\ now < MaxTime
    /\ now' = now + 1
    /\ UNCHANGED <<rps, burst, limiters, log>>
    /\ UNCHANGED ipVars
    /\ UNCHANGED pipeVars
    /\ UNCHANGED authVars

NextRL ==
    \/ \E r \in RLRequests : RLRequest(r)
    \/ Tick

SpecRL == InitRL /\ [][NextRL]_vars

(***************************************************************************)
(* C1: with no refill time elapsed since a key's first request, requests   *)
(* 1..burst of that key are admitted (the next handler runs) and request   *)
(* burst+1 is answered 429 without the next handler running.               *)
(***************************************************************************)
FirstOf(k) == CHOOSE i \in 1..Len(log) :
                 /\ log[i].key = k
                 /\ \A j \in 1..(i - 1) : log[j].key # k

NthOf(i) == Cardinality({j \in 1..i : log[j].key = log[i].key})

NoRefill(i) == log[i].t = log[FirstOf(log[i].key)].t

C1_BurstThenReject ==
    \A i \in 1..Len(log) :
        (burst >= 1 /\ NoRefill(i)) =>
            /\ NthOf(i) <= burst =>
                  (log[i].status = StatusOK /\ log[i].nextRan)
            /\ NthOf(i) = burst + 1 =>
                  (log[i].status = StatusTooManyRequests /\ ~log[i].nextRan)

C1_Witness ==
    \E i \in 1..Len(log) :
        /\ burst >= 1
        /\ NoRefill(i)
        /\ NthOf(i) = burst + 1
        /\ log[i].status = StatusTooManyRequests
        /\ \A j \in 1..(i - 1) : log[j].key = log[i].key => log[j].nextRan

(***************************************************************************)
(* C2: the decision for each request of a key is the decision a bucket     *)
(* that saw only that key's requests would take, whatever the other keys   *)
(* did; in particular a key's first request is admitted when burst >= 1.   *)
(***************************************************************************)
RECURSIVE Replay(_, _)
Replay(lim, times) ==
    IF times = <<>> THEN <<>>
    ELSE LET filled == Min(burst, lim.tokens + (Head(times) - lim.last) * rps)
         IN  IF filled >= 1
             THEN <<TRUE>> \o Replay([tokens |-> filled - 1, last |-> Head(times)],
                                     Tail(times))
             ELSE <<FALSE>> \o Replay(lim, Tail(times))

OwnLog(k) == SelectSeq(log, LAMBDA e : e.key = k)

C2_KeysIndependent ==
    \A i \in 1..Len(log) :
        LET own == OwnLog(log[i].key)
            alone == Replay([tokens |-> burst, last |-> 0],
                            [n \in 1..Len(own) |-> own[n].t])
        IN  /\ \A n \in 1..Len(own) : own[n].nextRan = alone[n]
            /\ (burst >= 1 /\ i = FirstOf(log[i].key)) => log[i].nextRan

C2_Witness ==
    \E i, j \in 1..Len(log) :
        /\ burst = 1
        /\ i < j
        /\ log[i].key # log[j].key
        /\ log[i].t = log[j].t
        /\ log[i].status = StatusTooManyRequests
        /\ j = FirstOf(log[j].key)
        /\ log[j].nextRan

(***************************************************************************)
(* C4: two requests from the same client IP address that carry no proxy    *)
(* header are charged against the same token bucket.                       *)
(***************************************************************************)
C4_OneBucketPerIP ==
    \A i, j \in 1..Len(log) :
        (log[i].direct /\ log[j].direct /\ log[i].host = log[j].host)
            => log[i].key = log[j].key

(***************************************************************************)
(* getClientIP as a function of its input                                  *)
(***************************************************************************)
IPHeaderValues == {<<>>, <<"">>, <<"10.0.0.1">>, <<"10.0.0.2">>,
                   <<"10.0.0.1", "10.0.0.2">>}

IPRequests ==
    [RemoteAddr : RemoteAddrs,
     Header : [{"X-Forwarded-For", "X-Real-IP"} -> IPHeaderValues]]

InitIP ==
    /\ ApiIdle
    /\ GoIdle
    /\ rps = 1
    /\ burst = 1
    /\ limiters = EmptyMap
    /\ now = 0
    /\ log = <<>>
    /\ ipReq \in IPRequests
    /\ ipOut = ""
    /\ AuthIdle
    /\ PipeIdle

CallGetClientIP ==
    /\ UNCHANGED apiVars
    /\ UNCHANGED goVars
    /\ ipOut = ""
    /\ ipOut' = getClientIP(ipReq)
    /\ UNCHANGED <<ipReq>>
    /\ UNCHANGED rlVars
    /\ UNCHANGED authVars
    /\ UNCHANGED pipeVars

NextIP == CallGetClientIP

SpecIP == InitIP /\ [][NextIP]_vars

Absent == [t |-> "absent", s |-> "", n |-> 0]
Str(x) == [t |-> "string", s |-> x, n |-> 0]
Num(x) == [t |-> "number", s |-> "", n |-> x]

\* RSA public keys, and the big-endian bytes of their modulus and exponent.
\* A base64url string is the bytes it decodes to, or one that does not decode.
B64(bytes) == [valid |-> TRUE, bytes |-> bytes]
NotB64 == [valid |-> FALSE, bytes |-> <<>>]

RawURLDecode(x) == IF x.valid THEN [err |-> FALSE, bytes |-> x.bytes]
                   ELSE [err |-> TRUE, bytes |-> <<>>]

RECURSIVE BigEndian(_, _)
BigEndian(acc, bytes) ==
    IF bytes = <<>> THEN acc
    ELSE BigEndian(acc * 256 + Head(bytes), Tail(bytes))

parseRSAPublicKey(nStr, eStr) ==
    LET nDec == RawURLDecode(nStr)
        eDec == RawURLDecode(eStr)
    IN  IF nDec.err \/ eDec.err
        THEN [err |-> TRUE, key |-> [N |-> 0, E |-> 0]]
        ELSE [err |-> FALSE,
              key |-> [N |-> BigEndian(0, nDec.bytes),
                       E |-> BigEndian(0, eDec.bytes)]]

ModulusA == <<1, 43>>
ModulusB == <<2, 9>>
Exponent == <<1, 0, 1>>
KeyA == [N |-> 299, E |-> 65537]
KeyB == [N |-> 521, E |-> 65537]
Forged == [N |-> 0, E |-> 0]

\* Entries of a JWKS document.
JWK(kid, kty, use, n) ==
    [Kid |-> kid, Kty |-> kty, Use |-> use, N |-> n, E |-> B64(Exponent)]

JWKSDocs ==
    { <<JWK("k1", "RSA", "sig", B64(ModulusA))>>,
      <<JWK("k2", "RSA", "sig", B64(ModulusB))>>,
      <<JWK("k2", "EC", "sig", B64(ModulusB)), JWK("k2", "RSA", "enc", B64(ModulusB)),
        JWK("k2", "RSA", "sig", NotB64), JWK("k1", "RSA", "sig", B64(ModulusA))>> }

\* Answers of the JWKS endpoint: no connection, a non-200 status, a 200 with
\* a body that is not JSON, or a 200 with a key set.
JWKSAnswers ==
    { [reach |-> FALSE, status |-> 0, json |-> FALSE, doc |-> <<>>],
      [reach |-> TRUE, status |-> 500, json |-> FALSE, doc |-> <<>>],
      [reach |-> TRUE, status |-> 200, json |-> FALSE, doc |-> <<>>] }
    \cup { [reach |-> TRUE, status |-> 200, json |-> TRUE, doc |-> d] :
             d \in JWKSDocs }

\* The loop of refreshJWKS over the fetched entries.
RECURSIVE StoreKeys(_, _)
StoreKeysInto(ks, doc) ==
    IF doc = <<>> THEN ks
    ELSE LET key == Head(doc)
             parsed == parseRSAPublicKey(key.N, key.E)
         IN  IF key.Kty # "RSA" \/ key.Use # "sig" \/ parsed.err
             THEN StoreKeys(ks, Tail(doc))
             ELSE StoreKeys((key.Kid :> parsed.key) @@ ks, Tail(doc))

StoreKeysFresh(ks, doc) == StoreKeysInto(EmptyMap, doc)

StoreKeys(ks, doc) == StoreKeysInto(ks, doc)

refreshJWKSIn(ks, cfg, server, clearOnError) ==
    IF cfg.JWKSURL = "" \/ ~server.reach \/ server.status # StatusOK
       \/ ~server.json
    THEN [err |-> TRUE, keys |-> IF clearOnError THEN EmptyMap ELSE ks]
    ELSE [err |-> FALSE, keys |-> StoreKeys(ks, server.doc)]

refreshJWKSClearing(ks, cfg, server) == refreshJWKSIn(ks, cfg, server, TRUE)

refreshJWKS(ks, cfg, server) == refreshJWKSIn(ks, cfg, server, FALSE)

getKey(ks, kid) ==
    IF kid \in DOMAIN ks THEN [err |-> FALSE, key |-> ks[kid]]
    ELSE [err |-> TRUE, key |-> Forged]

\* The Authorization header is a string made of these pieces: scheme words,
\* single spaces, an opaque word, and compact JWTs.
Sp == [c |-> " "]
Word(w) == [c |-> w]
JWTs ==
    { [c |-> "jwt", alg |-> "RS256", kid |-> Str(kid), sig |-> sig,
       iss |-> Str(iss), exp |-> Num(exp), sub |-> Str("alice")] :
          kid \in {"k1", "k2"}, sig \in {KeyA, KeyB},
          iss \in {"iss1"}, exp \in {MaxTime} }
    \cup
    { [c |-> "jwt", alg |-> "RS256", kid |-> Str("k1"), sig |-> KeyA,
       iss |-> Str(iss), exp |-> Num(exp), sub |-> Str("alice")] :
          iss \in {"iss1", "iss2"}, exp \in 0..MaxTime }
    \cup
    { [c |-> "jwt", alg |-> alg, kid |-> kid, sig |-> sig,
       iss |-> iss, exp |-> exp, sub |-> sub] :
          alg \in {"HS256"}, kid \in {Str("k1")}, sig \in {KeyA},
          iss \in {Str("iss1")}, exp \in {Num(MaxTime)}, sub \in {Str("alice")} }
    \cup
    { [c |-> "jwt", alg |-> "RS256", kid |-> d[1], sig |-> d[2],
       iss |-> d[3], exp |-> d[4], sub |-> d[5]] :
          d \in { <<Absent, KeyA, Str("iss1"), Num(MaxTime), Str("alice")>>,
                  <<Str("k1"), Forged, Str("iss1"), Num(MaxTime), Str("alice")>>,
                  <<Str("k1"), KeyA, Absent, Num(MaxTime), Str("alice")>>,
                  <<Str("k1"), KeyA, Num(1), Num(MaxTime), Str("alice")>>,
                  <<Str("k1"), KeyA, Str("iss1"), Absent, Str("alice")>>,
                  <<Str("k1"), KeyA, Str("iss1"), Str("soon"), Str("alice")>>,
                  <<Str("k1"), KeyA, Str("iss1"), Num(MaxTime), Absent>> } }

GoodJWT == [c |-> "jwt", alg |-> "RS256", kid |-> Str("k1"), sig |-> KeyA,
            iss |-> Str("iss1"), exp |-> Num(MaxTime), sub |-> Str("alice")]

AuthHeaders ==
    { <<Word("Bearer"), Sp, j>> : j \in JWTs }
    \cup
    { <<>>,
      <<Word("bearer"), Sp, GoodJWT>>,
      <<Word("BEARER"), Sp, GoodJWT>>,
      <<Word("Basic"), Sp, GoodJWT>>,
      <<GoodJWT>>,
      <<Word("Bearer"), Sp, Sp, GoodJWT>>,
      <<Word("Bearer"), Sp>>,
      <<Word("Bearer"), Sp, Word("x")>> }

\* The requests used to exercise the key cache: well-formed tokens that
\* differ in the key they name and the key that signed them.
KeyHeaders ==
    { <<Word("Bearer"), Sp, [GoodJWT EXCEPT !.kid = Str(kid), !.sig = sig]>> :
        kid \in {"k1", "k2"}, sig \in {KeyA, KeyB} }

\* strings.Split(s, " ")
RECURSIVE Split(_)
Split(str) ==
    IF str = <<>> THEN << <<>> >>
    ELSE Only({ IF Head(str) = Sp
                THEN << <<>> >> \o rest
                ELSE << <<Head(str)>> \o rest[1] >> \o Tail(rest) :
                rest \in {Split(Tail(str))} })

\* strings.ToLower
LowerWord(w) ==
    IF w \in {"Bearer", "BEARER", "bearer"} THEN "bearer"
    ELSE IF w \in {"Basic", "basic"} THEN "basic"
    ELSE w

ToLower(str) == [i \in 1..Len(str) |-> [str[i] EXCEPT !.c = LowerWord(@)]]

\* The key function handed to jwt.Parse (lines 175-198): the signing method
\* must be RSA, the header must carry a string kid, and the key is taken
\* from the cache, after one refresh when the cache does not have it.
\* ops lists the calls the key function makes on the cache, in order.
KeyFuncRetrying(j, ks, cfg, server) ==
    IF j.alg # "RS256" \/ j.kid.t # "string"
    THEN [err |-> TRUE, key |-> Forged, keys |-> ks, refreshed |-> "none",
          ops |-> <<>>]
    ELSE LET first == getKey(ks, j.kid.s)
         IN  IF ~first.err
             THEN [err |-> FALSE, key |-> first.key, keys |-> ks,
                   refreshed |-> "none", ops |-> <<"getKey">>]
             ELSE Only({ IF r.err
                         THEN [err |-> TRUE, key |-> Forged, keys |-> r.keys,
                               refreshed |-> "error",
                               ops |-> <<"getKey", "refreshJWKS">>]
                         ELSE [err |-> getKey(r.keys, j.kid.s).err,
                               key |-> getKey(r.keys, j.kid.s).key,
                               keys |-> r.keys, refreshed |-> "ok",
                               ops |-> IF getKey(r.keys, j.kid.s).err
                                       THEN <<"getKey", "refreshJWKS", "getKey",
                                              "refreshJWKS", "getKey">>
                                       ELSE <<"getKey", "refreshJWKS", "getKey">>] :
                         r \in {refreshJWKS(ks, cfg, server)} })

KeyFunc(j, ks, cfg, server) ==
    IF j.alg # "RS256" \/ j.kid.t # "string"
    THEN [err |-> TRUE, key |-> Forged, keys |-> ks, refreshed |-> "none",
          ops |-> <<>>]
    ELSE LET first == getKey(ks, j.kid.s)
         IN  IF ~first.err
             THEN [err |-> FALSE, key |-> first.key, keys |-> ks,
                   refreshed |-> "none", ops |-> <<"getKey">>]
             ELSE Only({ IF r.err
                         THEN [err |-> TRUE, key |-> Forged, keys |-> r.keys,
                               refreshed |-> "error",
                               ops |-> <<"getKey", "refreshJWKS">>]
                         ELSE [err |-> getKey(r.keys, j.kid.s).err,
                               key |-> getKey(r.keys, j.kid.s).key,
                               keys |-> r.keys, refreshed |-> "ok",
                               ops |-> <<"getKey", "refreshJWKS", "getKey">>] :
                         r \in {refreshJWKS(ks, cfg, server)} })

\* jwt.Parse of golang-jwt/jwt/v5 with no parser options: the string must be
\* a compact JWT, the key function must deliver a key, the signature must
\* verify under that key, and the registered claims must validate: an exp
\* claim, when present, must be a number and the current time must be
\* before it.  The tokens here carry no nbf claim.
jwtParseWith(tokenString, ks, cfg, server, t, validateClaims) ==
    IF Len(tokenString) # 1 \/ tokenString[1].c # "jwt"
    THEN [err |-> TRUE, keys |-> ks, refreshed |-> "none"]
    ELSE LET j == tokenString[1]
             expOK == \/ j.exp.t = "absent"
                      \/ j.exp.t = "number" /\ t < j.exp.n
         IN  Only({ [err |-> ~(/\ ~k.err
                               /\ j.sig = k.key
                               /\ validateClaims => expOK),
                     keys |-> k.keys, refreshed |-> k.refreshed] :
                    k \in {KeyFunc(j, ks, cfg, server)} })

jwtParseNoClaimsValidation(tokenString, ks, cfg, server, t) ==
    jwtParseWith(tokenString, ks, cfg, server, t, FALSE)

jwtParse(tokenString, ks, cfg, server, t) ==
    jwtParseWith(tokenString, ks, cfg, server, t, TRUE)

\* validateToken, lines 214-220: the issuer check.
issuerRejectsToleratingAbsence(cfg, j) ==
    cfg.Issuer # "" /\ j.iss.t = "string" /\ j.iss.s # cfg.Issuer

issuerRejects(cfg, j) ==
    cfg.Issuer # "" /\ (j.iss.t # "string" \/ j.iss.s # cfg.Issuer)

\* validateToken, lines 222-229: the expiry check.
expRejectsLenient(j, t) == j.exp.t = "number" /\ t > j.exp.n

expRejects(j, t) == j.exp.t # "number" \/ t > j.exp.n

validateToken(tokenString, ks, cfg, server, t) ==
    LET j == tokenString[1]
    IN  Only({ IF p.err \/ issuerRejects(cfg, j) \/ expRejects(j, t)
               THEN [err |-> TRUE, claims |-> NoClaims, keys |-> p.keys,
                     refreshed |-> p.refreshed]
               ELSE [err |-> FALSE,
                     claims |-> [NoClaims EXCEPT
                                   !.Subject = IF j.sub.t = "string"
                                               THEN j.sub.s ELSE ""],
                     keys |-> p.keys, refreshed |-> p.refreshed] :
               p \in {jwtParse(tokenString, ks, cfg, server, t)} })

\* The handler returned by Middleware.Authenticate, wrapped around a next
\* handler that answers 200.  ctx is the value stored under UserContextKey
\* of the request that next receives.
Unauthorized(ks, refreshed) ==
    [status |-> StatusUnauthorized, nextRan |-> FALSE, hasClaims |-> FALSE,
     ctx |-> NoClaims, keys |-> ks, refreshed |-> refreshed]

AuthenticateWith(authHeader, ks, cfg, server, t, scheme) ==
    IF ~cfg.Enabled
    THEN [status |-> StatusOK, nextRan |-> TRUE, hasClaims |-> FALSE,
          ctx |-> NoClaims, keys |-> ks, refreshed |-> "none"]
    ELSE IF authHeader = <<>>
    THEN Unauthorized(ks, "none")
    ELSE Only({ IF Len(parts) # 2 \/ ToLower(parts[1]) # <<Word(scheme)>>
                THEN Unauthorized(ks, "none")
                ELSE Only({ IF v.err
                            THEN Unauthorized(v.keys, v.refreshed)
                            ELSE [status |-> StatusOK, nextRan |-> TRUE,
                                  hasClaims |-> TRUE, ctx |-> v.claims,
                                  keys |-> v.keys, refreshed |-> v.refreshed] :
                            v \in {validateToken(parts[2], ks, cfg, server, t)} }) :
                parts \in {Split(authHeader)} })

AuthenticateBasic(authHeader, ks, cfg, server, t) ==
    AuthenticateWith(authHeader, ks, cfg, server, t, "basic")

Authenticate(authHeader, ks, cfg, server, t) ==
    AuthenticateWith(authHeader, ks, cfg, server, t, "bearer")

AuthConfigs ==
    [Enabled : {TRUE}, Issuer : {"", "iss1"}, JWKSURL : {"", "http://idp/jwks"}]
    \cup {[Enabled |-> FALSE, Issuer |-> "iss1", JWKSURL |-> "http://idp/jwks"]}

\* NewMiddleware: an empty cache, and a background refresh when a JWKS URL
\* is configured.
InitAuth ==
    /\ ApiIdle
    /\ GoIdle
    /\ authCfg \in AuthConfigs
    /\ keys = EmptyMap
    /\ jwksServer \in JWKSAnswers
    /\ preload = (authCfg.JWKSURL # "")
    /\ authSeq = 0
    /\ authReq = <<>>
    /\ authResp = NoResponse
    /\ failedOnce = FALSE
    /\ rps = 1
    /\ burst = 1
    /\ limiters = EmptyMap
    /\ now = 0
    /\ log = <<>>
    /\ ipReq = NoRequest
    /\ ipOut = ""
    /\ PipeIdle

AuthRequest(h) ==
    \E a \in {Authenticate(h, keys, authCfg, jwksServer, now)} :
        /\ authReq' = h
        /\ authResp' = [status |-> a.status, nextRan |-> a.nextRan,
                        hasClaims |-> a.hasClaims, ctx |-> a.ctx,
                        refreshed |-> a.refreshed]
        /\ authSeq' = 1 - authSeq
        /\ keys' = a.keys
        /\ failedOnce' = (failedOnce \/ a.refreshed = "error")
        /\ UNCHANGED <<authCfg, jwksServer, preload>>
        /\ UNCHANGED <<rps, burst, limiters, now, log>>
        /\ UNCHANGED ipVars
        /\ UNCHANGED pipeVars
        /\ UNCHANGED apiVars
        /\ UNCHANGED goVars

\* The "go m.refreshJWKS()" started by NewMiddleware.
PreloadJWKS ==
    /\ UNCHANGED apiVars
    /\ UNCHANGED goVars
    /\ preload
    /\ keys' = refreshJWKS(keys, authCfg, jwksServer).keys
    /\ preload' = FALSE
    /\ UNCHANGED <<authCfg, jwksServer, authSeq, authReq, authResp, failedOnce>>
    /\ UNCHANGED <<rps, burst, limiters, now, log>>
    /\ UNCHANGED ipVars
    /\ UNCHANGED pipeVars

\* The identity provider rotates its keys, goes down or comes back.
JWKSChange(s) ==
    /\ UNCHANGED apiVars
    /\ UNCHANGED goVars
    /\ s # jwksServer
    /\ jwksServer' = s
    /\ UNCHANGED <<authCfg, keys, preload, authSeq, authReq, authResp,
                   failedOnce>>
    /\ UNCHANGED <<rps, burst, limiters, now, log>>
    /\ UNCHANGED ipVars
    /\ UNCHANGED pipeVars

NextAuth ==
    \/ \E h \in AuthHeaders : AuthRequest(h)
    \/ PreloadJWKS
    \/ Tick

SpecAuth == InitAuth /\ [][NextAuth]_vars

\* The key cache over the life of the process, while the identity provider
\* changes what it serves.
InitJWKS ==
    /\ InitAuth
    /\ authCfg.Enabled
    /\ authCfg.Issuer = "iss1"

NextJWKS ==
    \/ \E h \in KeyHeaders : AuthRequest(h)
    \/ PreloadJWKS
    \/ \E s \in JWKSAnswers : JWKSChange(s)

SpecJWKS == InitJWKS /\ [][NextJWKS]_vars

(***************************************************************************)
(* Properties of the authentication middleware.  A step with               *)
(* authSeq' # authSeq is one in which Authenticate served the request      *)
(* authReq' and answered authResp'.                                        *)
(***************************************************************************)
Served == authSeq' # authSeq

\* The header reads "<scheme> <token>" with the scheme Bearer in any case.
IsBearerForm(h) ==
    /\ Len(h) = 3
    /\ h[1].c \in {"Bearer", "bearer", "BEARER"}
    /\ h[2] = Sp
    /\ h[3] # Sp

IsBearerJWT(h) == IsBearerForm(h) /\ h[3].c = "jwt"

\* The token is an RS256 JWT naming a key of the cache ks that verifies its
\* signature.
SignatureValid(j, ks) ==
    /\ j.c = "jwt"
    /\ j.alg = "RS256"
    /\ j.kid.t = "string"
    /\ j.kid.s \in DOMAIN ks
    /\ ks[j.kid.s] = j.sig

IssuerMatches(j, cfg) == j.iss.t = "string" /\ j.iss.s = cfg.Issuer

Unexpired(j, t) == j.exp.t = "number" /\ j.exp.n > t

TokenValid(j, ks, cfg, t) ==
    /\ SignatureValid(j, ks)
    /\ cfg.Issuer # "" => IssuerMatches(j, cfg)
    /\ Unexpired(j, t)

Rejected(answer) == answer.status = StatusUnauthorized /\ ~answer.nextRan

(***************************************************************************)
(* C5: with auth disabled every request reaches the next handler           *)
(* unchanged; with auth enabled the next handler runs exactly when the     *)
(* header is "Bearer <token>" and the token validates, and then the        *)
(* claims are attached to the context; otherwise the answer is 401 and     *)
(* the next handler does not run.                                          *)
(***************************************************************************)
C5_AuthGate ==
    [][Served =>
        IF ~authCfg.Enabled
        THEN /\ authResp'.nextRan
             /\ authResp'.status = StatusOK
             /\ ~authResp'.hasClaims
        ELSE /\ authResp'.nextRan <=>
                  (/\ IsBearerForm(authReq')
                   /\ TokenValid(authReq'[3], keys', authCfg, now))
             /\ authResp'.nextRan =>
                  (/\ authResp'.hasClaims
                   /\ authResp'.ctx.Subject =
                        (IF authReq'[3].sub.t = "string"
                         THEN authReq'[3].sub.s ELSE ""))
             /\ ~authResp'.nextRan =>
                  (Rejected(authResp') /\ ~authResp'.hasClaims)]_vars

C5_Witness ==
    /\ authCfg.Enabled
    /\ IsBearerForm(authReq)
    /\ authResp.nextRan
    /\ authResp.hasClaims
    /\ authResp.ctx.Subject = "alice"

(***************************************************************************)
(* C6 as stated: every token whose issuer claim differs from the           *)
(* configured issuer (or is missing or not a string) is answered 401.      *)
(***************************************************************************)
C6_IssuerMismatchRejected ==
    [][(Served /\ authCfg.Enabled /\ IsBearerJWT(authReq')
        /\ ~IssuerMatches(authReq'[3], authCfg))
       => Rejected(authResp')]_vars

(***************************************************************************)
(* C6 amended: when a non-empty expected issuer is configured, every       *)
(* token whose issuer claim differs from it (or is missing or not a        *)
(* string) is answered 401, valid signature and expiry notwithstanding.    *)
(***************************************************************************)
C6_ConfiguredIssuerEnforced ==
    [][(Served /\ authCfg.Enabled /\ authCfg.Issuer # ""
        /\ IsBearerJWT(authReq') /\ ~IssuerMatches(authReq'[3], authCfg))
       => Rejected(authResp')]_vars

C6_Witness ==
    /\ authCfg.Enabled
    /\ authCfg.Issuer # ""
    /\ IsBearerJWT(authReq)
    /\ ~IssuerMatches(authReq[3], authCfg)
    /\ SignatureValid(authReq[3], keys)
    /\ Unexpired(authReq[3], now)
    /\ Rejected(authResp)

(***************************************************************************)
(* C7: a token whose exp is at or before the current time, or that has no  *)
(* numeric exp, is answered 401 even with a valid signature and issuer; a  *)
(* token with exp after the current time that is otherwise valid is        *)
(* accepted.                                                               *)
(***************************************************************************)
C7_ExpiryEnforced ==
    [][(Served /\ authCfg.Enabled /\ IsBearerJWT(authReq')) =>
        /\ ~Unexpired(authReq'[3], now) => Rejected(authResp')
        /\ (/\ Unexpired(authReq'[3], now)
            /\ SignatureValid(authReq'[3], keys')
            /\ authCfg.Issuer # "" => IssuerMatches(authReq'[3], authCfg))
           => authResp'.nextRan]_vars

C7_Witness ==
    /\ authCfg.Enabled
    /\ IsBearerJWT(authReq)
    /\ authReq[3].exp = Num(now)
    /\ SignatureValid(authReq[3], keys)
    /\ IssuerMatches(authReq[3], authCfg)
    /\ Rejected(authResp)

(***************************************************************************)
(* Properties of the key cache                                             *)
(***************************************************************************)

\* The conditions under which refreshJWKS cannot fetch a key set.
RefreshFails ==
    \/ authCfg.JWKSURL = ""
    \/ ~jwksServer.reach
    \/ jwksServer.status # StatusOK
    \/ ~jwksServer.json

\* The signing keys of a key set that parse, by key identifier.
Parses(e) == e.Kty = "RSA" /\ e.Use = "sig" /\ e.N.valid /\ e.E.valid

ParsedKeys(doc) ==
    LET good == {i \in 1..Len(doc) : Parses(doc[i])}
        lastOf(kid) == CHOOSE i \in good :
                          /\ doc[i].Kid = kid
                          /\ \A j \in good : doc[j].Kid = kid => j <= i
    IN  [kid \in {doc[i].Kid : i \in good} |->
            [N |-> BigEndian(0, doc[lastOf(kid)].N.bytes),
             E |-> BigEndian(0, doc[lastOf(kid)].E.bytes)]]

PreloadRan == preload /\ ~preload'

RefreshSucceeded ==
    \/ Served /\ authResp'.refreshed = "ok"
    \/ PreloadRan /\ ~RefreshFails

\* The request misses the cache, so validateToken calls refreshJWKS.
CacheMiss(h, ks) ==
    /\ IsBearerJWT(h)
    /\ h[3].alg = "RS256"
    /\ h[3].kid.t = "string"
    /\ h[3].kid.s \notin DOMAIN ks

(***************************************************************************)
(* C8: after every successful refreshJWKS the cache holds exactly the      *)
(* signing keys of the fetched set that parsed; a key identifier absent    *)
(* from the fetched set is no longer in the cache.                         *)
(***************************************************************************)
C8_CacheReplacedWholesale ==
    [][RefreshSucceeded => keys' = ParsedKeys(jwksServer.doc)]_vars

(***************************************************************************)
(* C9: a failing refreshJWKS returns an error and leaves the cache as it   *)
(* was; the request that triggered it is answered 401; a later request     *)
(* whose key is in the cache is still served.                              *)
(***************************************************************************)
C9_FailedRefreshHarmless ==
    [][/\ (Served /\ authResp'.refreshed = "error")
          => (keys' = keys /\ Rejected(authResp'))
       /\ (Served /\ CacheMiss(authReq', keys) /\ RefreshFails)
          => (authResp'.refreshed = "error" /\ keys' = keys
              /\ Rejected(authResp'))
       /\ (PreloadRan /\ RefreshFails) => keys' = keys
       /\ (Served /\ failedOnce /\ IsBearerJWT(authReq')
           /\ TokenValid(authReq'[3], keys, authCfg, now))
          => (authResp'.nextRan /\ authResp'.status = StatusOK)]_vars

C9_Witness ==
    /\ failedOnce
    /\ keys # EmptyMap
    /\ authResp.refreshed = "none"
    /\ authResp.nextRan
    /\ authResp.status = StatusOK

(***************************************************************************)
(* The middleware chain that NewServer puts in front of the API routes     *)
(***************************************************************************)

\* Strings that are matched by prefix and suffix are sequences of pieces.
HasPrefix(str, prefix) ==
    Len(str) >= Len(prefix) /\ SubSeq(str, 1, Len(prefix)) = prefix

HasSuffix(str, suffix) ==
    /\ Len(str) >= Len(suffix)
    /\ SubSeq(str, Len(str) - Len(suffix) + 1, Len(str)) = suffix

TrimPrefix(str, prefix) ==
    IF HasPrefix(str, prefix) THEN SubSeq(str, Len(prefix) + 1, Len(str))
    ELSE str

Star == <<"*">>

\* isOriginAllowed: the first entry that is "*", equals the origin, or is a
\* "*.domain" pattern whose ".domain" the origin ends with.
RECURSIVE isOriginAllowedNoDot(_, _)
isOriginAllowedNoDot(origin, allowedOrigins) ==
    IF allowedOrigins = <<>> THEN FALSE
    ELSE LET allowedOrigin == Head(allowedOrigins)
         IN  \/ allowedOrigin = <<"*">>
             \/ allowedOrigin = origin
             \/ /\ HasPrefix(allowedOrigin, <<"*", ".">>)
                /\ HasSuffix(origin, TrimPrefix(allowedOrigin, <<"*", ".">>))
             \/ isOriginAllowedNoDot(origin, Tail(allowedOrigins))

RECURSIVE isOriginAllowed(_, _)
isOriginAllowed(origin, allowedOrigins) ==
    IF allowedOrigins = <<>> THEN FALSE
    ELSE LET allowedOrigin == Head(allowedOrigins)
         IN  \/ allowedOrigin = Star
             \/ allowedOrigin = origin
             \/ /\ HasPrefix(allowedOrigin, <<"*", ".">>)
                /\ HasSuffix(origin, TrimPrefix(allowedOrigin, Star))
             \/ isOriginAllowed(origin, Tail(allowedOrigins))

AppOrigin == <<"https://", "app", ".", "example.com">>
EvilOrigin == <<"https://", "evil", ".", "example.net">>

\* http.ResponseWriter: the first WriteHeader fixes the status, later ones
\* are ignored; a first Write without WriteHeader sends 200.
WriteHeader(w, code) ==
    IF w.status = 0 THEN [w EXCEPT !.status = code] ELSE w

Write(w, text) ==
    [WriteHeader(w, StatusOK) EXCEPT !.body = Append(@, text)]

\* A header set after the response header has been sent has no effect.
SetContentType(w, ctype) ==
    IF w.status = 0 THEN [w EXCEPT !.ctype = ctype] ELSE w

\* http.Error: plain-text content type, the status, the message and a
\* newline.
HttpErrorNoStatus(w, msg, code) ==
    Write(SetContentType(w, "text/plain; charset=utf-8"), msg \o "\n")

HttpError(w, msg, code) ==
    Write(WriteHeader(SetContentType(w, "text/plain; charset=utf-8"), code),
          msg \o "\n")

\* json.NewEncoder(w).Encode(ErrorResponse{Error: message})
ErrorJSON(message) == "{\"error\":\"" \o message \o "\"}\n"

\* respondJSON: the JSON content type, the status, the encoded data.
respondJSON(w, data, status) ==
    Write(WriteHeader(SetContentType(w, "application/json"), status), data)

respondError(w, message, status) == respondJSON(w, ErrorJSON(message), status)

\* The order in which NewServer nests the handlers (lines 62-84):
\* the handler a stage calls as next.
NextStageLoggingOutside(stage, cfg) ==
    CASE stage = "recovery" -> IF cfg.RateLimit THEN "ratelimit" ELSE "logging"
      [] stage = "ratelimit" -> "logging"
      [] stage = "logging" -> "cors"
      [] stage = "cors" -> "auth"
      [] stage = "auth" -> "handler"

NextStage(stage, cfg) ==
    CASE stage = "recovery" -> IF cfg.RateLimit THEN "ratelimit" ELSE "cors"
      [] stage = "ratelimit" -> "cors"
      [] stage = "cors" -> "logging"
      [] stage = "logging" -> "auth"
      [] stage = "auth" -> "handler"

PipeRequests ==
    [Method : {"GET", "OPTIONS"},
     Path : {"/api/v1/projects/p1"},
     RemoteAddr : {HostPort("10.0.0.1", "5000")},
     Header : {[n \in {"X-Forwarded-For", "X-Real-IP"} |-> <<>>]},
     Authorization : {<<>>, <<Word("Bearer"), Sp, GoodJWT>>},
     Origin : {AppOrigin, EvilOrigin}]

\* What a resource handler does with a request: it answers with
\* respondJSON, with respondError or with a bare status, or panics, or
\* answers and then panics.
HandlerOutcomes ==
    { [kind |-> "json", status |-> StatusOK, msg |-> "", panics |-> FALSE],
      [kind |-> "error", status |-> StatusBadRequest,
       msg |-> "Invalid request body", panics |-> FALSE],
      [kind |-> "error", status |-> StatusNotFound,
       msg |-> "Project not found", panics |-> FALSE],
      [kind |-> "error", status |-> StatusInternalServerError,
       msg |-> "Failed to delete project", panics |-> FALSE],
      [kind |-> "status", status |-> StatusNoContent, msg |-> "",
       panics |-> FALSE],
      [kind |-> "none", status |-> 0, msg |-> "", panics |-> TRUE],
      [kind |-> "json", status |-> StatusOK, msg |-> "", panics |-> TRUE] }

\* The encoded record a handler answers with.
DataJSON == "{\"ID\":\"p1\"}\n"

\* The handler's writes on the response writer it was given.
HandlerWrites(w, o) ==
    CASE o.kind = "json" -> respondJSON(w, DataJSON, o.status)
      [] o.kind = "error" -> respondError(w, o.msg, o.status)
      [] o.kind = "status" -> WriteHeader(w, o.status)
      [] o.kind = "none" -> w

\* CORSMiddleware answers a preflight request itself.
IsPreflightNever(r) == FALSE

IsPreflight(r) == r.Method = "OPTIONS"

\* The Access-Control-Allow-Origin header as CORSMiddleware leaves it.
\* The header holds no value or the one value set.
AllowOriginHeader(w, origin, allowed) ==
    IF isOriginAllowed(origin, allowed) THEN <<origin>>
    ELSE IF Len(allowed) = 1 /\ allowed[1] = Star THEN <<Star>>
    ELSE w.allowOrigin

\* The record loggingMiddleware writes; req numbers the request the record
\* is written for.
AccessRecordDefaultStatus(r, status, n) ==
    [req |-> n, method |-> r.Method, path |-> r.Path, status |-> StatusOK,
     remote |-> r.RemoteAddr]

AccessRecord(r, status, n) ==
    [req |-> n, method |-> r.Method, path |-> r.Path, status |-> status,
     remote |-> r.RemoteAddr]

PipeConfigs ==
    [RateLimit : BOOLEAN,
     AllowedOrigins : { <<AppOrigin, <<"*", ".", "example.org">> >> },
     AllowedMethods : { <<"GET", "POST", "PUT", "DELETE", "OPTIONS">> },
     AllowedHeaders : { <<"Authorization", "Content-Type">> },
     ExposedHeaders : { <<>> },
     AllowCredentials : { TRUE },
     MaxAge : { 0 }]

\* The Access-Control-* headers CORSMiddleware sets besides Allow-Origin.
CORSHeaders(cfg) ==
    {h \in {"Access-Control-Allow-Methods", "Access-Control-Allow-Headers",
            "Access-Control-Expose-Headers", "Access-Control-Allow-Credentials",
            "Access-Control-Max-Age"} :
        \/ h = "Access-Control-Allow-Methods" /\ Len(cfg.AllowedMethods) > 0
        \/ h = "Access-Control-Allow-Headers" /\ Len(cfg.AllowedHeaders) > 0
        \/ h = "Access-Control-Expose-Headers" /\ Len(cfg.ExposedHeaders) > 0
        \/ h = "Access-Control-Allow-Credentials" /\ cfg.AllowCredentials
        \/ h = "Access-Control-Max-Age" /\ cfg.MaxAge > 0}

\* CORSMiddleware on the writer w: the headers it sets, and whether it
\* answers itself or calls next.
CORSServe(cfg, r, w) ==
    LET h == [w EXCEPT
                !.allowOrigin = AllowOriginHeader(w, r.Origin, cfg.AllowedOrigins),
                !.cors = CORSHeaders(cfg)]
    IN  IF IsPreflight(r)
        THEN [w |-> WriteHeader(h, StatusNoContent), forwarded |-> FALSE]
        ELSE [w |-> h, forwarded |-> TRUE]

InitPipe ==
    /\ ApiIdle
    /\ GoIdle
    /\ pipeCfg \in PipeConfigs
    /\ pipeReq = NoPipeRequest
    /\ pc = "idle"
    /\ stack = <<>>
    /\ trace = <<>>
    /\ answeredBy = ""
    /\ resp = NoResp
    /\ rwStatus = 0
    /\ accessLog = <<>>
    /\ panicLog = 0
    /\ served = 0
    /\ rps = 1
    /\ burst = 1
    /\ limiters = EmptyMap
    /\ now = 0
    /\ log = <<>>
    /\ ipReq = NoRequest
    /\ ipOut = ""
    /\ authCfg \in {[Enabled |-> e, Issuer |-> "iss1", JWKSURL |-> "http://idp/jwks"] :
                      e \in BOOLEAN}
    /\ keys = EmptyMap
    /\ jwksServer = [reach |-> TRUE, status |-> StatusOK, json |-> TRUE,
                     doc |-> <<JWK("k1", "RSA", "sig", B64(ModulusA))>>]
    /\ preload = TRUE
    /\ authSeq = 0
    /\ authReq = <<>>
    /\ authResp = NoResponse
    /\ failedOnce = FALSE

\* The answer RecoveryMiddleware's deferred function writes.
RecoverResponseEmpty(w) == WriteHeader(w, StatusInternalServerError)

RecoverResponse(w) ==
    HttpError(w, "Internal Server Error", StatusInternalServerError)

\* The deferred function of RecoveryMiddleware as it would be if it answered
\* without looking at what recover() returned.
RecoveryDeferredAlways(w, logged, panicked) ==
    [w |-> RecoverResponse(w), logged |-> logged + 1]

\* The deferred function of RecoveryMiddleware, which runs when the handler
\* returns and when it panics: it logs and answers only if recover() gave
\* it a panic.
RecoveryDeferred(w, logged, panicked) ==
    IF panicked
    THEN [w |-> RecoverResponse(w), logged |-> logged + 1]
    ELSE [w |-> w, logged |-> logged]

\* next.ServeHTTP(w, r): the stage is entered.
Call(stage) ==
    /\ pc' = stage
    /\ stack' = Append(stack, stage)
    /\ trace' = Append(trace, stage)

\* A write of an inner stage goes through the logging middleware's
\* responseWriter when that middleware has been entered.
Logged(code) == IF rwStatus = 0 THEN 0 ELSE code

\* mux.Handle("/api/", apiHandler): the request reaches the outermost handler.
PipeReceive(r) ==
    /\ UNCHANGED apiVars
    /\ UNCHANGED goVars
    /\ pc = "idle"
    /\ served < MaxPipeReqs
    /\ pipeReq' = r
    /\ pc' = "recovery"
    /\ stack' = <<"recovery">>
    /\ trace' = <<"recovery">>
    /\ answeredBy' = ""
    /\ resp' = NoResp
    /\ rwStatus' = 0
    /\ UNCHANGED <<pipeCfg, accessLog, panicLog, served>>
    /\ UNCHANGED rlVars
    /\ UNCHANGED ipVars
    /\ UNCHANGED authVars

\* RecoveryMiddleware: installs the deferred recover and calls next.
StepRecovery ==
    /\ UNCHANGED apiVars
    /\ UNCHANGED goVars
    /\ pc = "recovery"
    /\ Call(NextStage("recovery", pipeCfg))
    /\ UNCHANGED <<pipeCfg, pipeReq, answeredBy, resp, rwStatus, accessLog,
                   panicLog, served>>
    /\ UNCHANGED rlVars
    /\ UNCHANGED ipVars
    /\ UNCHANGED authVars

\* RateLimiter.Middleware
StepRateLimit ==
    /\ UNCHANGED apiVars
    /\ UNCHANGED goVars
    /\ pc = "ratelimit"
    /\ LET ip == getClientIP(pipeReq)
           g == getLimiter(limiters, ip)
           a == Allow(g.limiters[g.slot], now)
       IN  /\ limiters' = [g.limiters EXCEPT ![g.slot] = a.lim]
           /\ IF ~a.ok
              THEN /\ resp' = HttpError(resp,
                                 "Rate limit exceeded. Please try again later.",
                                 StatusTooManyRequests)
                   /\ answeredBy' = "ratelimit"
                   /\ pc' = "return"
                   /\ UNCHANGED <<stack, trace>>
              ELSE /\ Call(NextStage("ratelimit", pipeCfg))
                   /\ UNCHANGED <<resp, answeredBy>>
    /\ UNCHANGED <<pipeCfg, pipeReq, rwStatus, accessLog, panicLog, served>>
    /\ UNCHANGED <<rps, burst, now, log>>
    /\ UNCHANGED ipVars
    /\ UNCHANGED authVars

\* CORSMiddleware
StepCORS ==
    /\ UNCHANGED apiVars
    /\ UNCHANGED goVars
    /\ pc = "cors"
    /\ \E c \in {CORSServe(pipeCfg, pipeReq, resp)} :
           /\ resp' = c.w
           /\ IF ~c.forwarded
              THEN /\ rwStatus' = Logged(StatusNoContent)
                   /\ answeredBy' = "cors"
                   /\ pc' = "return"
                   /\ UNCHANGED <<stack, trace>>
              ELSE /\ Call(NextStage("cors", pipeCfg))
                   /\ UNCHANGED <<answeredBy, rwStatus>>
    /\ UNCHANGED <<pipeCfg, pipeReq, accessLog, panicLog, served>>
    /\ UNCHANGED rlVars
    /\ UNCHANGED ipVars
    /\ UNCHANGED authVars

\* loggingMiddleware, up to its call of next: the writer is wrapped with
\* statusCode 200.
StepLogging ==
    /\ UNCHANGED apiVars
    /\ UNCHANGED goVars
    /\ pc = "logging"
    /\ rwStatus' = StatusOK
    /\ Call(NextStage("logging", pipeCfg))
    /\ UNCHANGED <<pipeCfg, pipeReq, answeredBy, resp, accessLog, panicLog,
                   served>>
    /\ UNCHANGED rlVars
    /\ UNCHANGED ipVars
    /\ UNCHANGED authVars

\* Middleware.Authenticate
StepAuth ==
    /\ UNCHANGED apiVars
    /\ UNCHANGED goVars
    /\ pc = "auth"
    /\ \E a \in {Authenticate(pipeReq.Authorization, keys, authCfg,
                                jwksServer, now)} :
           /\ keys' = a.keys
           /\ failedOnce' = (failedOnce \/ a.refreshed = "error")
           /\ IF ~a.nextRan
              THEN /\ resp' = HttpError(resp, "Unauthorized", StatusUnauthorized)
                   /\ rwStatus' = Logged(StatusUnauthorized)
                   /\ answeredBy' = "auth"
                   /\ pc' = "return"
                   /\ UNCHANGED <<stack, trace>>
              ELSE /\ Call(NextStage("auth", pipeCfg))
                   /\ UNCHANGED <<resp, rwStatus, answeredBy>>
    /\ UNCHANGED <<pipeCfg, pipeReq, accessLog, panicLog, served>>
    /\ UNCHANGED <<authCfg, jwksServer, preload, authSeq, authReq, authResp>>
    /\ UNCHANGED rlVars
    /\ UNCHANGED ipVars

\* apiMux: the resource handler registered for the route.
StepHandler(o) ==
    /\ UNCHANGED apiVars
    /\ UNCHANGED goVars
    /\ pc = "handler"
    /\ resp' = HandlerWrites(resp, o)
    /\ rwStatus' = IF o.kind = "none" THEN rwStatus ELSE Logged(o.status)
    /\ pc' = IF o.panics THEN "panic" ELSE "return"
    /\ UNCHANGED <<pipeCfg, pipeReq, stack, trace, answeredBy, accessLog,
                   panicLog, served>>
    /\ UNCHANGED rlVars
    /\ UNCHANGED ipVars
    /\ UNCHANGED authVars

\* The innermost running handler returns to its caller.  loggingMiddleware
\* writes its record when the handler it called returns to it.
PipeReturn ==
    /\ UNCHANGED apiVars
    /\ UNCHANGED goVars
    /\ pc = "return"
    /\ stack # <<>>
    /\ LET top == stack[Len(stack)]
           rest == SubSeq(stack, 1, Len(stack) - 1)
       IN  /\ stack' = rest
           /\ accessLog' =
                IF top = "logging"
                THEN Append(accessLog,
                            AccessRecord(pipeReq, rwStatus, served + 1))
                ELSE accessLog
           /\ pc' = IF rest = <<>> THEN "idle" ELSE "return"
           /\ served' = IF rest = <<>> THEN served + 1 ELSE served
           /\ \E d \in {RecoveryDeferred(resp, panicLog, FALSE)} :
                /\ resp' = IF top = "recovery" THEN d.w ELSE resp
                /\ panicLog' = IF top = "recovery" THEN d.logged ELSE panicLog
    /\ UNCHANGED <<pipeCfg, pipeReq, trace, answeredBy, rwStatus>>
    /\ UNCHANGED rlVars
    /\ UNCHANGED ipVars
    /\ UNCHANGED authVars

\* A panic unwinds every handler up to the deferred function of
\* RecoveryMiddleware, which logs it and answers 500 on its own writer.
PipeRecover ==
    /\ UNCHANGED apiVars
    /\ UNCHANGED goVars
    /\ pc = "panic"
    /\ \E d \in {RecoveryDeferred(resp, panicLog, TRUE)} :
        /\ resp' = d.w
        /\ panicLog' = d.logged
    /\ stack' = <<>>
    /\ pc' = "idle"
    /\ served' = served + 1
    /\ UNCHANGED <<pipeCfg, pipeReq, trace, answeredBy, rwStatus, accessLog>>
    /\ UNCHANGED rlVars
    /\ UNCHANGED ipVars
    /\ UNCHANGED authVars

NextPipe ==
    \/ \E r \in PipeRequests : PipeReceive(r)
    \/ StepRecovery
    \/ StepRateLimit
    \/ StepCORS
    \/ StepLogging
    \/ StepAuth
    \/ \E o \in HandlerOutcomes : StepHandler(o)
    \/ PipeReturn
    \/ PipeRecover
    \/ PreloadJWKS

SpecPipe == InitPipe /\ [][NextPipe]_vars

\* A request that has been received is run to completion: the server runs
\* each handler in its goroutine until it returns or panics.
PipeStep ==
    \/ StepRecovery
    \/ StepRateLimit
    \/ StepCORS
    \/ StepLogging
    \/ StepAuth
    \/ \E o \in HandlerOutcomes : StepHandler(o)
    \/ PipeReturn
    \/ PipeRecover

SpecPipeLive == SpecPipe /\ WF_vars(PipeStep)

(***************************************************************************)
(* C10: a request to /api/ enters the stages in the order recovery, rate   *)
(* limiting (only when enabled), CORS, logging, authentication, resource   *)
(* handler; it enters a stage only after every earlier stage has called    *)
(* next, and enters no stage twice.                                        *)
(***************************************************************************)
StageOrder(cfg) ==
    <<"recovery">> \o (IF cfg.RateLimit THEN <<"ratelimit">> ELSE <<>>)
    \o <<"cors", "logging", "auth", "handler">>

C10_StagesInOrder ==
    /\ Len(trace) <= Len(StageOrder(pipeCfg))
    /\ trace = SubSeq(StageOrder(pipeCfg), 1, Len(trace))
    /\ answeredBy # "" => (trace # <<>> /\ trace[Len(trace)] = answeredBy)

C10_Witness ==
    /\ pipeCfg.RateLimit
    /\ authCfg.Enabled
    /\ pc = "idle"
    /\ served > 0
    /\ trace = <<"recovery", "ratelimit", "cors", "logging", "auth", "handler">>
    /\ resp.status = StatusOK

(***************************************************************************)
(* Properties of one request's way through the chain                       *)
(***************************************************************************)

InTrace(stage) == \E i \in DOMAIN trace : trace[i] = stage

\* The step that ends the request: the outermost handler returns, or the
\* deferred function of RecoveryMiddleware has answered.
Completes == pc # "idle" /\ pc' = "idle"

OriginMatches == isOriginAllowed(pipeReq.Origin, pipeCfg.AllowedOrigins)

RecoveryText == "Internal Server Error\n"

(***************************************************************************)
(* C11 as claimed: every OPTIONS request whose origin matches the CORS     *)
(* policy is answered with an empty 204 and never reaches credential       *)
(* validation or the resource handler, also when rate limiting is enabled  *)
(* and the client's bucket is exhausted.                                   *)
(***************************************************************************)
C11_PreflightAlways204 ==
    (pipeReq.Method = "OPTIONS" /\ OriginMatches) =>
        /\ ~InTrace("auth")
        /\ ~InTrace("handler")
        /\ (pc = "idle" /\ served > 0) =>
               (resp.status = StatusNoContent /\ resp.body = <<>>)

(***************************************************************************)
(* C11 amended: an OPTIONS request whose origin matches the CORS policy    *)
(* never reaches credential validation or the resource handler; it is      *)
(* answered with an empty 204 by CORSMiddleware unless the rate limiter,   *)
(* when enabled, has rejected it with 429 before it reached CORSMiddleware.*)
(***************************************************************************)
C11_PreflightAdmitted204 ==
    (pipeReq.Method = "OPTIONS" /\ OriginMatches) =>
        /\ ~InTrace("auth")
        /\ ~InTrace("handler")
        /\ (pc = "idle" /\ served > 0) =>
               IF answeredBy = "ratelimit"
               THEN pipeCfg.RateLimit /\ resp.status = StatusTooManyRequests
               ELSE /\ answeredBy = "cors"
                    /\ resp.status = StatusNoContent
                    /\ resp.body = <<>>

C11_Witness ==
    /\ pc = "idle"
    /\ served = 1
    /\ pipeCfg.RateLimit
    /\ authCfg.Enabled
    /\ pipeReq.Method = "OPTIONS"
    /\ pipeReq.Authorization = <<>>
    /\ OriginMatches
    /\ trace = <<"recovery", "ratelimit", "cors">>
    /\ resp.status = StatusNoContent
    /\ resp.allowOrigin = <<AppOrigin>>

(***************************************************************************)
(* C12 as claimed: every request to /api/, whatever its outcome, produces  *)
(* exactly one access-log record carrying its method, path and resulting   *)
(* status.                                                                 *)
(***************************************************************************)
C12_EveryRequestLogged ==
    [][Completes =>
         LET recs == {i \in DOMAIN accessLog' : accessLog'[i].req = served'}
         IN  /\ Cardinality(recs) = 1
             /\ \A i \in recs :
                  /\ accessLog'[i].method = pipeReq.Method
                  /\ accessLog'[i].path = pipeReq.Path
                  /\ accessLog'[i].status = resp'.status]_vars

(***************************************************************************)
(* C12 amended: a request that reaches loggingMiddleware and whose inner   *)
(* stages return without panicking (answered 401 by credential validation  *)
(* or answered by a resource handler) produces exactly one access-log      *)
(* record carrying its method, path and resulting status, written after    *)
(* the inner handler has returned; a request rejected by the rate limiter, *)
(* a preflight answered by CORSMiddleware and a request that panics        *)
(* produce no access-log record.                                           *)
(***************************************************************************)
C12_ReturnedRequestsLogged ==
    [][/\ Completes =>
            LET recs == {i \in DOMAIN accessLog' : accessLog'[i].req = served'}
            IN  /\ Cardinality(recs) =
                       IF InTrace("logging") /\ pc # "panic" THEN 1 ELSE 0
                /\ \A i \in recs :
                     /\ accessLog'[i].method = pipeReq.Method
                     /\ accessLog'[i].path = pipeReq.Path
                     /\ accessLog'[i].status = resp'.status
       /\ accessLog' # accessLog =>
            /\ pc = "return"
            /\ stack # <<>> /\ stack[Len(stack)] = "logging"
            /\ Len(accessLog') = Len(accessLog) + 1
            /\ SubSeq(accessLog', 1, Len(accessLog)) = accessLog
            /\ accessLog'[Len(accessLog')].req = served + 1]_vars

C12_Witness ==
    /\ pc = "idle"
    /\ served = 2
    /\ Len(accessLog) = 2
    /\ accessLog[1].req = 1 /\ accessLog[1].status = StatusUnauthorized
    /\ accessLog[2].req = 2 /\ accessLog[2].status = StatusNotFound
    /\ accessLog[2].method = "GET"
    /\ resp.status = StatusNotFound

EndsRejected ==
    /\ pc = "return"
    /\ \/ answeredBy = "ratelimit" /\ resp'.status = StatusTooManyRequests
       \/ answeredBy = "auth" /\ resp'.status = StatusUnauthorized

EndsHandled ==
    /\ pc = "return"
    /\ answeredBy = ""
    /\ trace # <<>> /\ trace[Len(trace)] = "handler"
    /\ resp'.status # 0

EndsInternalError == pc = "panic"

EndsPreflight ==
    /\ pc = "return"
    /\ answeredBy = "cors"
    /\ resp'.status = StatusNoContent

Count(P) == IF P THEN 1 ELSE 0

ErrorMessages ==
    {o.msg : o \in {h \in HandlerOutcomes : h.kind = "error"}}
    \cup {"Unauthorized", "Rate limit exceeded. Please try again later."}

C15_ErrorsAreJSON ==
    [][(Completes /\ pc # "panic" /\ resp'.status >= StatusBadRequest) =>
         /\ resp'.ctype = "application/json"
         /\ \E m \in ErrorMessages : resp'.body = <<ErrorJSON(m)>>]_vars

(***************************************************************************)
(* CORSMiddleware on its own, in front of a handler that answers 200       *)
(***************************************************************************)
SubOrigin == <<"https://", "api", ".", "example.org">>
ApexOrigin == <<"https://", "example.org">>
Wildcard == <<"*", ".", "example.org">>

CORSOrigins == {<<>>, AppOrigin, EvilOrigin, SubOrigin, ApexOrigin}

CORSRequests ==
    [Method : {"GET", "POST", "OPTIONS"},
     Path : {"/api/v1/projects/p1"},
     RemoteAddr : {HostPort("10.0.0.1", "5000")},
     Header : {[n \in {"X-Forwarded-For", "X-Real-IP"} |-> <<>>]},
     Authorization : {<<>>},
     Origin : CORSOrigins]

CORSConfigs ==
    [RateLimit : {FALSE},
     AllowedOrigins : { <<>>, <<Star>>, <<AppOrigin>>, <<AppOrigin, Wildcard>>,
                        <<Wildcard, Star>> },
     AllowedMethods : { <<"GET", "POST", "PUT", "DELETE", "OPTIONS">> },
     AllowedHeaders : { <<"Authorization", "Content-Type">> },
     ExposedHeaders : { <<>> },
     AllowCredentials : { TRUE },
     MaxAge : { 0 }]

InitCORS ==
    /\ ApiIdle
    /\ GoIdle
    /\ pipeCfg \in CORSConfigs
    /\ pipeReq = NoPipeRequest
    /\ pc = "idle"
    /\ stack = <<>>
    /\ trace = <<>>
    /\ answeredBy = ""
    /\ resp = NoResp
    /\ rwStatus = 0
    /\ accessLog = <<>>
    /\ panicLog = 0
    /\ served = 0
    /\ rps = 1
    /\ burst = 1
    /\ limiters = EmptyMap
    /\ now = 0
    /\ log = <<>>
    /\ ipReq = NoRequest
    /\ ipOut = ""
    /\ AuthIdle

\* corsMiddleware(next).ServeHTTP(w, r) on a fresh writer, next answering
\* 200 "OK".
CORSRequest(r) ==
    /\ UNCHANGED apiVars
    /\ UNCHANGED goVars
    /\ pc = "idle"
    /\ served < MaxPipeReqs
    /\ pipeReq' = r
    /\ \E c \in {CORSServe(pipeCfg, r, NoResp)} :
           IF c.forwarded
           THEN /\ resp' = Write(WriteHeader(c.w, StatusOK), "OK")
                /\ trace' = <<"cors", "next">>
                /\ answeredBy' = ""
           ELSE /\ resp' = c.w
                /\ trace' = <<"cors">>
                /\ answeredBy' = "cors"
    /\ served' = served + 1
    /\ UNCHANGED <<pipeCfg, pc, stack, rwStatus, accessLog, panicLog>>
    /\ UNCHANGED rlVars
    /\ UNCHANGED ipVars
    /\ UNCHANGED authVars

NextCORS == \E r \in CORSRequests : CORSRequest(r)

SpecCORS == InitCORS /\ [][NextCORS]_vars

\* The three ways the policy admits an origin.
ExactEntry(origin, allowed) == \E i \in DOMAIN allowed : allowed[i] = origin

WildcardEntry(origin, allowed) ==
    \E i \in DOMAIN allowed :
        /\ Len(allowed[i]) >= 2
        /\ allowed[i][1] = "*" /\ allowed[i][2] = "."
        /\ LET suffix == Tail(allowed[i])
           IN  /\ Len(origin) >= Len(suffix)
               /\ \A k \in 1..Len(suffix) :
                    origin[Len(origin) - Len(suffix) + k] = suffix[k]

UniversalEntry(allowed) == \E i \in DOMAIN allowed : allowed[i] = <<"*">>

(***************************************************************************)
(* C16: CORSMiddleware sets Access-Control-Allow-Origin to the request's   *)
(* Origin value if and only if that origin equals an allow-list entry,     *)
(* matches a "*.suffix" wildcard entry, or the allow-list holds the        *)
(* universal wildcard "*"; for every other origin the header is not set;   *)
(* a request that is not OPTIONS is forwarded to the next handler either   *)
(* way.                                                                    *)
(***************************************************************************)
C16_AllowOriginIffMatch ==
    served > 0 =>
        LET origin == pipeReq.Origin
            allowed == pipeCfg.AllowedOrigins
        IN  /\ IF \/ ExactEntry(origin, allowed)
                  \/ WildcardEntry(origin, allowed)
                  \/ UniversalEntry(allowed)
               THEN resp.allowOrigin = <<origin>>
               ELSE resp.allowOrigin = <<>>
            /\ pipeReq.Method # "OPTIONS" =>
                 (trace = <<"cors", "next">> /\ resp.status = StatusOK)

C16_Witness ==
    /\ served = 2
    /\ pipeCfg.AllowedOrigins = <<AppOrigin, Wildcard>>
    /\ pipeReq.Method = "GET"
    /\ pipeReq.Origin = SubOrigin
    /\ resp.allowOrigin = <<SubOrigin>>
    /\ trace = <<"cors", "next">>

(***************************************************************************)
(* The resource handlers and the document store behind them.               *)
(*                                                                         *)
(* A request body is either not JSON at all or a JSON object, kept as the  *)
(* sequence of its members in the order they were written.  A member's     *)
(* value is a string, a number or null.  The services between the handlers *)
(* and the repositories pass every call through unchanged.                 *)
(***************************************************************************)
MaxApiReqs == 3

Null == [t |-> "null", s |-> "", n |-> 0]

NotJSON == [json |-> FALSE, members |-> <<>>]
Obj(members) == [json |-> TRUE, members |-> members]
Member(k, v) == [key |-> k, val |-> v]

\* The Go type of a struct field the decoder fills.
StringField(k) == [key |-> k, type |-> "string"]
TimeField(k) == [key |-> k, type |-> "time"]

\* time.Time's UnmarshalJSON accepts RFC 3339 strings only.
DueString == "2024-12-31T23:59:59Z"
IsRFC3339(s) == s = DueString

\* Whether json.Decoder accepts member m for a struct with these fields:
\* unknown keys are skipped, null is accepted for every field, and any other
\* value must have the field's type.
MemberDecodes(m, fields) ==
    \/ \A f \in fields : f.key # m.key
    \/ m.val.t = "null"
    \/ \E f \in fields :
        /\ f.key = m.key
        /\ m.val.t = "string"
        /\ f.type = "time" => IsRFC3339(m.val.s)

\* json.NewDecoder(r.Body).Decode(&req) returns an error.
DecodeFails(body, fields) ==
    \/ ~body.json
    \/ \E i \in DOMAIN body.members : ~MemberDecodes(body.members[i], fields)

\* The value a field holds after decoding: members are applied in order, a
\* later one overwrites an earlier one, and null leaves the field as it is.
\* A field no member set keeps the value it had before, given as unset.
RECURSIVE Decoded(_, _, _)
Decoded(members, k, unset) ==
    IF members = <<>> THEN unset
    ELSE LET m == members[Len(members)]
         IN  IF m.key = k /\ m.val.t # "null"
             THEN m.val
             ELSE Decoded(SubSeq(members, 1, Len(members) - 1), k, unset)

\* ObjectIDs are numbered in the order NewObjectID hands them out; Hex writes
\* one as 24 hexadecimal digits and ObjectIDFromHex reads it back, failing
\* on every other string.
ObjectIDs == 1..(MaxApiReqs + 1)

Hex(oid) == "65f0c3a1b2d4e5f6a7b8c9d" \o ToString(oid)

ObjectIDFromHex(s) ==
    IF \E oid \in ObjectIDs : Hex(oid) = s
    THEN [err |-> FALSE, oid |-> CHOOSE oid \in ObjectIDs : Hex(oid) = s]
    ELSE [err |-> TRUE, oid |-> 0]

\* time.Now() while the handlers serve their (seq+1)-th request: requests are
\* served one after the other and the clock moves on between two of them.
\* 0 is the zero time.Time.
TimeNow(seq) == seq + 1

TimeJSON(t) == IF t = 0 THEN "0001-01-01T00:00:00Z" ELSE "T" \o ToString(t)

\* json.Encoder.Encode of an entities.Project, which has no field tags.
EncodeProject(p) ==
    "{\"ID\":\"" \o p.ID \o "\",\"Name\":\"" \o p.Name
        \o "\",\"Description\":\"" \o p.Description
        \o "\",\"CreatedAt\":\"" \o TimeJSON(p.CreatedAt)
        \o "\",\"UpdatedAt\":\"" \o TimeJSON(p.UpdatedAt) \o "\"}\n"

\* A collection with document doc stored under oid, and with oid removed.
Stored(coll, oid, doc) ==
    [o \in DOMAIN coll \cup {oid} |-> IF o = oid THEN doc ELSE coll[o]]

Removed(coll, oid) == [o \in DOMAIN coll \ {oid} |-> coll[o]]

\* mongoDbProjectRepository.  Every method returns whether it failed, the
\* collection and the ObjectID counter afterwards, and the project the caller
\* holds afterwards.  up says whether the store answers.
RepoResult(err, coll, oids, entity) ==
    [err |-> err, coll |-> coll, oids |-> oids, entity |-> entity]

fromMongoProject(oid, doc) ==
    [ID |-> Hex(oid), Name |-> doc.Name, Description |-> doc.Description,
     CreatedAt |-> doc.CreatedAt, UpdatedAt |-> doc.UpdatedAt]

ProjectDoc(project) ==
    [Name |-> project.Name, Description |-> project.Description,
     CreatedAt |-> project.CreatedAt, UpdatedAt |-> project.UpdatedAt]

\* Insert as it would be if it did not hand the generated id back.
ProjectInsertNoID(coll, oids, project, t, up) ==
    IF project.ID # "" THEN RepoResult(TRUE, coll, oids, project)
    ELSE LET oid == oids + 1
             doc == [Name |-> project.Name, Description |-> project.Description,
                     CreatedAt |-> t, UpdatedAt |-> t]
         IN  IF ~up THEN RepoResult(TRUE, coll, oid, project)
             ELSE RepoResult(FALSE, Stored(coll, oid, doc), oid,
                             [project EXCEPT !.CreatedAt = t, !.UpdatedAt = t])

ProjectInsert(coll, oids, project, t, up) ==
    IF project.ID # "" THEN RepoResult(TRUE, coll, oids, project)
    ELSE LET oid == oids + 1
             doc == [Name |-> project.Name, Description |-> project.Description,
                     CreatedAt |-> t, UpdatedAt |-> t]
         IN  IF ~up THEN RepoResult(TRUE, coll, oid, project)
             ELSE RepoResult(FALSE, Stored(coll, oid, doc), oid,
                             [project EXCEPT !.ID = Hex(oid), !.CreatedAt = t,
                                             !.UpdatedAt = t])

ProjectFindByID(coll, oids, id, up) ==
    LET h == ObjectIDFromHex(id)
    IN  IF h.err \/ ~up \/ h.oid \notin DOMAIN coll
        THEN RepoResult(TRUE, coll, oids, NoProject)
        ELSE RepoResult(FALSE, coll, oids, fromMongoProject(h.oid, coll[h.oid]))

\* ReplaceOne by _id.  The new UpdatedAt goes into the stored document only:
\* the caller's project is not written to.
ProjectUpdate(coll, oids, project, t, up) ==
    IF project.ID = "" THEN RepoResult(TRUE, coll, oids, project)
    ELSE LET h == ObjectIDFromHex(project.ID)
             doc == [ProjectDoc(project) EXCEPT !.UpdatedAt = t]
         IN  IF h.err \/ ~up \/ h.oid \notin DOMAIN coll
             THEN RepoResult(TRUE, coll, oids, project)
             ELSE RepoResult(FALSE, Stored(coll, h.oid, doc), oids, project)

\* Delete as it would be if deleting nothing were not an error.
ProjectDeleteAnyCount(coll, oids, id, up) ==
    LET h == ObjectIDFromHex(id)
    IN  IF h.err \/ ~up
        THEN RepoResult(TRUE, coll, oids, NoProject)
        ELSE RepoResult(FALSE, Removed(coll, h.oid), oids, NoProject)

ProjectDelete(coll, oids, id, up) ==
    LET h == ObjectIDFromHex(id)
    IN  IF h.err \/ ~up \/ h.oid \notin DOMAIN coll
        THEN RepoResult(TRUE, coll, oids, NoProject)
        ELSE RepoResult(FALSE, Removed(coll, h.oid), oids, NoProject)

\* What a handler leaves behind: the response, both collections, the
\* ObjectID counter and the repository methods it called.
Outcome(w, ps, ts, oids, calls) ==
    [w |-> w, projects |-> ps, tasks |-> ts, oids |-> oids, calls |-> calls]

CreateProjectFields == {StringField("name"), StringField("description")}

\* ProjectHandler.Create
ProjectHandlerCreate(ps, ts, oids, body, t, up) ==
    LET name == Decoded(body.members, "name", Str("")).s
        description == Decoded(body.members, "description", Str("")).s
        project == [NoProject EXCEPT !.Name = name, !.Description = description]
        ins == ProjectInsert(ps, oids, project, t, up)
    IN  IF DecodeFails(body, CreateProjectFields)
        THEN Outcome(respondError(NoResp, "Invalid request body", StatusBadRequest),
                    ps, ts, oids, <<>>)
        ELSE IF name = ""
        THEN Outcome(respondError(NoResp, "Name is required", StatusBadRequest),
                    ps, ts, oids, <<>>)
        ELSE IF ins.err
        THEN Outcome(respondError(NoResp, "Failed to create project",
                                 StatusInternalServerError),
                    ins.coll, ts, ins.oids, <<"Insert">>)
        ELSE Outcome(respondJSON(NoResp, EncodeProject(ins.entity), StatusCreated),
                    ins.coll, ts, ins.oids, <<"Insert">>)

\* ProjectHandler.Get
ProjectHandlerGet(ps, ts, oids, id, up) ==
    LET found == ProjectFindByID(ps, oids, id, up)
    IN  IF id = ""
        THEN Outcome(respondError(NoResp, "Missing project ID", StatusBadRequest),
                    ps, ts, oids, <<>>)
        ELSE IF found.err
        THEN Outcome(respondError(NoResp, "Project not found", StatusNotFound),
                    ps, ts, oids, <<"FindByID">>)
        ELSE Outcome(respondJSON(NoResp, EncodeProject(found.entity), StatusOK),
                    ps, ts, oids, <<"FindByID">>)

\* ProjectHandler.Update: the stored project is replaced as a whole, only
\* its creation time is carried over.
\* seen is the collection as FindByID reads it and ps the collection as
\* Update finds it: other requests may have been served in between.
ProjectHandlerUpdateSeeing(seen, ps, ts, oids, id, body, t, up) ==
    LET name == Decoded(body.members, "name", Str("")).s
        description == Decoded(body.members, "description", Str("")).s
        existing == ProjectFindByID(seen, oids, id, up)
        project == [ID |-> id, Name |-> name, Description |-> description,
                    CreatedAt |-> existing.entity.CreatedAt, UpdatedAt |-> 0]
        upd == ProjectUpdate(ps, oids, project, t, up)
    IN  IF id = ""
        THEN Outcome(respondError(NoResp, "Missing project ID", StatusBadRequest),
                    ps, ts, oids, <<>>)
        ELSE IF DecodeFails(body, CreateProjectFields)
        THEN Outcome(respondError(NoResp, "Invalid request body", StatusBadRequest),
                    ps, ts, oids, <<>>)
        ELSE IF name = ""
        THEN Outcome(respondError(NoResp, "Name is required", StatusBadRequest),
                    ps, ts, oids, <<>>)
        ELSE IF existing.err
        THEN Outcome(respondError(NoResp, "Project not found", StatusNotFound),
                    ps, ts, oids, <<"FindByID">>)
        ELSE IF upd.err
        THEN Outcome(respondError(NoResp, "Failed to update project",
                                 StatusInternalServerError),
                    upd.coll, ts, oids, <<"FindByID", "Update">>)
        ELSE Outcome(respondJSON(NoResp, EncodeProject(upd.entity), StatusOK),
                    upd.coll, ts, oids, <<"FindByID", "Update">>)

ProjectHandlerUpdate(ps, ts, oids, id, body, t, up) ==
    ProjectHandlerUpdateSeeing(ps, ps, ts, oids, id, body, t, up)

\* ProjectHandler.Delete
ProjectHandlerDelete(ps, ts, oids, id, up) ==
    LET del == ProjectDelete(ps, oids, id, up)
    IN  IF id = ""
        THEN Outcome(respondError(NoResp, "Missing project ID", StatusBadRequest),
                    ps, ts, oids, <<>>)
        ELSE IF del.err
        THEN Outcome(respondError(NoResp, "Failed to delete project",
                                 StatusInternalServerError),
                    del.coll, ts, oids, <<"Delete">>)
        ELSE Outcome(WriteHeader(NoResp, StatusNoContent),
                    del.coll, ts, oids, <<"Delete">>)

\* entities.TaskStatus
TaskStatusTodo == 0
TaskStatusInProgress == 1
TaskStatusDone == 2

StatusString(s) ==
    CASE s = TaskStatusTodo -> "TODO"
      [] s = TaskStatusInProgress -> "IN_PROGRESS"
      [] s = TaskStatusDone -> "DONE"
      [] OTHER -> "UNKNOWN"

\* ParseTaskStatus as it would be if every name were read as TODO.
ParseTaskStatusLenient(s) ==
    CASE s = "IN_PROGRESS" -> [err |-> FALSE, status |-> TaskStatusInProgress]
      [] s = "DONE" -> [err |-> FALSE, status |-> TaskStatusDone]
      [] OTHER -> [err |-> FALSE, status |-> TaskStatusTodo]

ParseTaskStatus(s) ==
    CASE s = "TODO" -> [err |-> FALSE, status |-> TaskStatusTodo]
      [] s = "IN_PROGRESS" -> [err |-> FALSE, status |-> TaskStatusInProgress]
      [] s = "DONE" -> [err |-> FALSE, status |-> TaskStatusDone]
      [] OTHER -> [err |-> TRUE, status |-> TaskStatusTodo]

\* An entities.Task; DueDate is "" for a nil pointer.
NoTask == [ID |-> "", ProjectID |-> "", Title |-> "", Status |-> TaskStatusTodo,
           DueDate |-> "", Description |-> "", CreatedAt |-> 0, UpdatedAt |-> 0]

\* json.Encoder.Encode of an entities.Task: the status goes out by its name
\* and a nil due date is left out.
EncodeTask(t) ==
    "{\"id\":\"" \o t.ID \o "\",\"projectId\":\"" \o t.ProjectID
        \o "\",\"title\":\"" \o t.Title
        \o "\",\"status\":\"" \o StatusString(t.Status) \o "\""
        \o (IF t.DueDate = "" THEN "" ELSE ",\"dueDate\":\"" \o t.DueDate \o "\"")
        \o ",\"description\":\"" \o t.Description
        \o "\",\"createdAt\":\"" \o TimeJSON(t.CreatedAt)
        \o "\",\"updatedAt\":\"" \o TimeJSON(t.UpdatedAt) \o "\"}\n"

\* The task repository behind storage.TaskRepository: a collection of task
\* documents by ObjectID, used like the project repository uses its own.
TaskDoc(task) ==
    [ProjectID |-> task.ProjectID, Title |-> task.Title, Status |-> task.Status,
     DueDate |-> task.DueDate, Description |-> task.Description,
     CreatedAt |-> task.CreatedAt, UpdatedAt |-> task.UpdatedAt]

fromMongoTask(oid, doc) ==
    [ID |-> Hex(oid), ProjectID |-> doc.ProjectID, Title |-> doc.Title,
     Status |-> doc.Status, DueDate |-> doc.DueDate,
     Description |-> doc.Description, CreatedAt |-> doc.CreatedAt,
     UpdatedAt |-> doc.UpdatedAt]

\* The check of the project id as it would be if every string passed.
InvalidProjectIDNever(task) == FALSE

\* A project id that is not empty must read as an ObjectID.
InvalidProjectID(task) ==
    task.ProjectID # "" /\ ObjectIDFromHex(task.ProjectID).err

TaskInsert(coll, oids, task, t, up) ==
    IF task.ID # "" THEN RepoResult(TRUE, coll, oids, task)
    ELSE LET oid == oids + 1
             stamped == [task EXCEPT !.ID = Hex(oid), !.CreatedAt = t,
                                     !.UpdatedAt = t]
         IN  IF InvalidProjectID(task) \/ ~up
             THEN RepoResult(TRUE, coll, oid, task)
             ELSE RepoResult(FALSE, Stored(coll, oid, TaskDoc(stamped)), oid,
                             stamped)

TaskFindByID(coll, oids, id, up) ==
    LET h == ObjectIDFromHex(id)
    IN  IF h.err \/ ~up \/ h.oid \notin DOMAIN coll
        THEN RepoResult(TRUE, coll, oids, NoTask)
        ELSE RepoResult(FALSE, coll, oids, fromMongoTask(h.oid, coll[h.oid]))

TaskUpdate(coll, oids, task, t, up) ==
    IF task.ID = "" THEN RepoResult(TRUE, coll, oids, task)
    ELSE LET h == ObjectIDFromHex(task.ID)
             doc == [TaskDoc(task) EXCEPT !.UpdatedAt = t]
         IN  IF h.err \/ InvalidProjectID(task) \/ ~up
                   \/ h.oid \notin DOMAIN coll
             THEN RepoResult(TRUE, coll, oids, task)
             ELSE RepoResult(FALSE, Stored(coll, h.oid, doc), oids, task)

TaskDelete(coll, oids, id, up) ==
    LET h == ObjectIDFromHex(id)
    IN  IF h.err \/ ~up \/ h.oid \notin DOMAIN coll
        THEN RepoResult(TRUE, coll, oids, NoTask)
        ELSE RepoResult(FALSE, Removed(coll, h.oid), oids, NoTask)

CreateTaskFields ==
    {StringField("title"), StringField("status"), TimeField("due_date"),
     StringField("description")}

\* TaskHandler.CreateForProject
TaskHandlerCreateForProject(ps, ts, oids, projectID, body, t, up) ==
    LET title == Decoded(body.members, "title", Str("")).s
        reqStatus == Decoded(body.members, "status", Str("")).s
        dueDate == Decoded(body.members, "due_date", Str("")).s
        description == Decoded(body.members, "description", Str("")).s
        parsed == IF reqStatus # "" THEN ParseTaskStatus(reqStatus)
                  ELSE [err |-> FALSE, status |-> TaskStatusTodo]
        task == [NoTask EXCEPT !.ProjectID = projectID, !.Title = title,
                               !.Status = parsed.status, !.DueDate = dueDate,
                               !.Description = description]
        ins == TaskInsert(ts, oids, task, t, up)
    IN  IF projectID = ""
        THEN Outcome(respondError(NoResp, "Missing project ID", StatusBadRequest),
                    ps, ts, oids, <<>>)
        ELSE IF DecodeFails(body, CreateTaskFields)
        THEN Outcome(respondError(NoResp, "Invalid request body", StatusBadRequest),
                    ps, ts, oids, <<>>)
        ELSE IF title = ""
        THEN Outcome(respondError(NoResp, "Title is required", StatusBadRequest),
                    ps, ts, oids, <<>>)
        ELSE IF parsed.err
        THEN Outcome(respondError(NoResp,
                        "Invalid status. Must be TODO, IN_PROGRESS, or DONE",
                        StatusBadRequest),
                    ps, ts, oids, <<>>)
        ELSE IF ins.err
        THEN Outcome(respondError(NoResp, "Failed to create task",
                                 StatusInternalServerError),
                    ps, ins.coll, ins.oids, <<"Insert">>)
        ELSE Outcome(respondJSON(NoResp, EncodeTask(ins.entity), StatusCreated),
                    ps, ins.coll, ins.oids, <<"Insert">>)

\* The merge as it would be if the handler built the task from the request
\* alone, without the project id and created timestamp of the existing one.
MergedTaskFresh(id, existing, body) ==
    LET title == Decoded(body.members, "title", Absent)
        status == Decoded(body.members, "status", Absent)
        dueDate == Decoded(body.members, "due_date", Absent)
        description == Decoded(body.members, "description", Absent)
    IN  [ID |-> id,
         ProjectID |-> "",
         Title |-> IF title.t # "absent" THEN title.s ELSE existing.Title,
         Status |-> IF status.t # "absent" THEN ParseTaskStatus(status.s).status
                    ELSE existing.Status,
         DueDate |-> IF dueDate.t # "absent" THEN dueDate.s ELSE existing.DueDate,
         Description |-> IF description.t # "absent" THEN description.s
                         ELSE existing.Description,
         CreatedAt |-> 0,
         UpdatedAt |-> 0]

\* The merge as it would be if the request's fields were plain strings,
\* written over the existing task whether the body carried them or not.
MergedTaskOverwriting(id, existing, body) ==
    LET title == Decoded(body.members, "title", Str(""))
        status == Decoded(body.members, "status", Absent)
        dueDate == Decoded(body.members, "due_date", Str(""))
        description == Decoded(body.members, "description", Str(""))
    IN  [ID |-> id,
         ProjectID |-> existing.ProjectID,
         Title |-> IF title.s # "" THEN title.s ELSE existing.Title,
         Status |-> IF status.t # "absent" THEN ParseTaskStatus(status.s).status
                    ELSE existing.Status,
         DueDate |-> dueDate.s,
         Description |-> description.s,
         CreatedAt |-> existing.CreatedAt,
         UpdatedAt |-> 0]

\* The task TaskHandler.Update hands to the service: the existing task with
\* the fields the request carries written over it.  A field of the request is
\* a nil pointer, here Absent, unless the body set it.
MergedTask(id, existing, body) ==
    LET title == Decoded(body.members, "title", Absent)
        status == Decoded(body.members, "status", Absent)
        dueDate == Decoded(body.members, "due_date", Absent)
        description == Decoded(body.members, "description", Absent)
    IN  [ID |-> id,
         ProjectID |-> existing.ProjectID,
         Title |-> IF title.t # "absent" THEN title.s ELSE existing.Title,
         Status |-> IF status.t # "absent" THEN ParseTaskStatus(status.s).status
                    ELSE existing.Status,
         DueDate |-> IF dueDate.t # "absent" THEN dueDate.s ELSE existing.DueDate,
         Description |-> IF description.t # "absent" THEN description.s
                         ELSE existing.Description,
         CreatedAt |-> existing.CreatedAt,
         UpdatedAt |-> 0]

\* TaskHandler.Update; seen is the collection as FindByID reads it and ts
\* the collection as Update finds it.
TaskHandlerUpdateSeeing(seen, ps, ts, oids, id, body, t, up) ==
    LET title == Decoded(body.members, "title", Absent)
        status == Decoded(body.members, "status", Absent)
        existing == TaskFindByID(seen, oids, id, up)
        task == MergedTask(id, existing.entity, body)
        upd == TaskUpdate(ts, oids, task, t, up)
    IN  IF id = ""
        THEN Outcome(respondError(NoResp, "Missing task ID", StatusBadRequest),
                    ps, ts, oids, <<>>)
        ELSE IF DecodeFails(body, CreateTaskFields)
        THEN Outcome(respondError(NoResp, "Invalid request body", StatusBadRequest),
                    ps, ts, oids, <<>>)
        ELSE IF existing.err
        THEN Outcome(respondError(NoResp, "Task not found", StatusNotFound),
                    ps, ts, oids, <<"FindByID">>)
        ELSE IF title.t # "absent" /\ title.s = ""
        THEN Outcome(respondError(NoResp, "Title cannot be empty", StatusBadRequest),
                    ps, ts, oids, <<"FindByID">>)
        ELSE IF status.t # "absent" /\ ParseTaskStatus(status.s).err
        THEN Outcome(respondError(NoResp,
                        "Invalid status. Must be TODO, IN_PROGRESS, or DONE",
                        StatusBadRequest),
                    ps, ts, oids, <<"FindByID">>)
        ELSE IF upd.err
        THEN Outcome(respondError(NoResp, "Failed to update task",
                                 StatusInternalServerError),
                    ps, upd.coll, oids, <<"FindByID", "Update">>)
        ELSE Outcome(respondJSON(NoResp, EncodeTask(upd.entity), StatusOK),
                    ps, upd.coll, oids, <<"FindByID", "Update">>)

TaskHandlerUpdate(ps, ts, oids, id, body, t, up) ==
    TaskHandlerUpdateSeeing(ts, ps, ts, oids, id, body, t, up)

\* TaskHandler.Delete
TaskHandlerDelete(ps, ts, oids, id, up) ==
    LET del == TaskDelete(ts, oids, id, up)
    IN  IF id = ""
        THEN Outcome(respondError(NoResp, "Missing task ID", StatusBadRequest),
                     ps, ts, oids, <<>>)
        ELSE IF del.err
        THEN Outcome(respondError(NoResp, "Failed to delete task",
                                  StatusInternalServerError),
                     ps, del.coll, oids, <<"Delete">>)
        ELSE Outcome(WriteHeader(NoResp, StatusNoContent),
                     ps, del.coll, oids, <<"Delete">>)

\* The requests the resource handlers are given.
PathIDs == {Hex(1), Hex(2), "task1"}

ProjectBodies ==
    {NotJSON,
     Obj(<<Member("name", Num(7))>>),
     Obj(<<Member("name", Str(""))>>),
     Obj(<<Member("name", Str("X")), Member("description", Str("d"))>>)}

ProjectUpdateBodies ==
    {NotJSON,
     Obj(<<Member("name", Str("")), Member("description", Str("e"))>>),
     Obj(<<Member("name", Str("Y"))>>)}

TaskBodies ==
    {NotJSON,
     Obj(<<Member("title", Str(""))>>),
     Obj(<<Member("title", Str("T"))>>),
     Obj(<<Member("title", Str("T")), Member("status", Str(""))>>),
     Obj(<<Member("title", Str("T")), Member("status", Str("done"))>>),
     Obj(<<Member("title", Str("T")), Member("status", Str("DONE")),
           Member("due_date", Str(DueString)), Member("description", Str("d"))>>)}

TaskUpdateBodies ==
    {NotJSON,
     Obj(<<>>),
     Obj(<<Member("status", Str("IN_PROGRESS"))>>),
     Obj(<<Member("status", Str("done"))>>),
     Obj(<<Member("title", Str(""))>>),
     Obj(<<Member("title", Str("U")), Member("description", Str(""))>>),
     Obj(<<Member("title", Null), Member("due_date", Str(DueString))>>),
     Obj(<<Member("due_date", Str("tomorrow"))>>)}

ApiRequestOf(op, id, body) == [op |-> op, id |-> id, body |-> body]

InitApi ==
    /\ rps = 1 /\ burst = 1 /\ limiters = EmptyMap /\ now = 0 /\ log = <<>>
    /\ ipReq = NoRequest /\ ipOut = ""
    /\ AuthIdle
    /\ PipeIdle
    /\ ApiIdle
    /\ GoIdle

\* One request served by a resource handler: out is what the handler left
\* behind and created the project a 201 answer of it described.
ApiServe(req, out, up, created) ==
    /\ apiSeq < MaxApiReqs
    /\ apiReq' = req
    /\ apiResp' = out.w
    /\ projects' = out.projects
    /\ tasks' = out.tasks
    /\ nextOid' = out.oids
    /\ apiCalls' = out.calls
    /\ dbUp' = up
    /\ apiSeq' = apiSeq + 1
    /\ lastCreated' = created
    /\ UNCHANGED goVars
    /\ UNCHANGED rlVars
    /\ UNCHANGED ipVars
    /\ UNCHANGED authVars
    /\ UNCHANGED pipeVars

\* The project the last 201 answer described, after a request that changed
\* or removed the project with this id.
Forget(id) == IF lastCreated.ID = id THEN NoProject ELSE lastCreated

\* POST /api/v1/projects
ProjectCreate(body, up) ==
    /\ apiSeq < MaxApiReqs
    /\ \E out \in {ProjectHandlerCreate(projects, tasks, nextOid, body,
                                        TimeNow(apiSeq), up)} :
           ApiServe(ApiRequestOf("POST /api/v1/projects", "", body), out, up,
                    IF out.w.status = StatusCreated
                    THEN fromMongoProject(out.oids, out.projects[out.oids])
                    ELSE lastCreated)

\* GET /api/v1/projects/{id}
ProjectGet(id, up) ==
    /\ apiSeq < MaxApiReqs
    /\ \E out \in {ProjectHandlerGet(projects, tasks, nextOid, id, up)} :
           ApiServe(ApiRequestOf("GET /api/v1/projects/{id}", id, NotJSON), out, up,
                    lastCreated)

\* PUT /api/v1/projects/{id}
ProjectPut(id, body, up) ==
    /\ apiSeq < MaxApiReqs
    /\ \E out \in {ProjectHandlerUpdate(projects, tasks, nextOid, id, body,
                                        TimeNow(apiSeq), up)} :
           ApiServe(ApiRequestOf("PUT /api/v1/projects/{id}", id, body), out, up,
                    IF out.projects # projects THEN Forget(id) ELSE lastCreated)

\* DELETE /api/v1/projects/{id}
ProjectRemove(id, up) ==
    /\ apiSeq < MaxApiReqs
    /\ \E out \in {ProjectHandlerDelete(projects, tasks, nextOid, id, up)} :
           ApiServe(ApiRequestOf("DELETE /api/v1/projects/{id}", id, NotJSON), out,
                    up,
                    IF out.projects # projects THEN Forget(id) ELSE lastCreated)

\* POST /api/v1/projects/{id}/tasks
TaskCreate(projectID, body, up) ==
    /\ apiSeq < MaxApiReqs
    /\ \E out \in {TaskHandlerCreateForProject(projects, tasks, nextOid, projectID,
                                               body, TimeNow(apiSeq), up)} :
           ApiServe(ApiRequestOf("POST /api/v1/projects/{id}/tasks", projectID,
                                 body),
                    out, up, lastCreated)

\* PUT /api/v1/tasks/{id}
TaskPut(id, body, up) ==
    /\ apiSeq < MaxApiReqs
    /\ \E out \in {TaskHandlerUpdate(projects, tasks, nextOid, id, body,
                                     TimeNow(apiSeq), up)} :
           ApiServe(ApiRequestOf("PUT /api/v1/tasks/{id}", id, body), out, up,
                    lastCreated)

\* DELETE /api/v1/tasks/{id}
TaskRemove(id, up) ==
    /\ apiSeq < MaxApiReqs
    /\ \E out \in {TaskHandlerDelete(projects, tasks, nextOid, id, up)} :
           ApiServe(ApiRequestOf("DELETE /api/v1/tasks/{id}", id, NotJSON), out, up,
                    lastCreated)

\* The project ids a task is created under: the first ObjectID, which may
\* name a project, a task or nothing, and a string that is no ObjectID.
TaskProjectIDs == {Hex(1), "task1"}

NextApi ==
    \/ \E body \in ProjectBodies, up \in BOOLEAN : ProjectCreate(body, up)
    \/ \E id \in PathIDs, up \in BOOLEAN : ProjectGet(id, up)
    \/ \E id \in PathIDs, body \in ProjectUpdateBodies, up \in BOOLEAN :
        ProjectPut(id, body, up)
    \/ \E id \in PathIDs, up \in BOOLEAN : ProjectRemove(id, up)
    \/ \E projectID \in TaskProjectIDs, body \in TaskBodies, up \in BOOLEAN :
        TaskCreate(projectID, body, up)
    \/ \E id \in PathIDs, up \in BOOLEAN : TaskRemove(id, up)
    \/ \E id \in PathIDs, body \in TaskUpdateBodies, up \in BOOLEAN :
        TaskPut(id, body, up)

SpecApi == InitApi /\ [][NextApi]_vars

(***************************************************************************)
(* Claims about the resource handlers.                                     *)
(***************************************************************************)

\* The request body carries a member with this key.
Present(body, k) == \E i \in DOMAIN body.members : body.members[i].key = k

\* This step serves a request of the given kind and answers it with status.
Answers(op, status) ==
    /\ apiSeq' = apiSeq + 1
    /\ apiReq'.op = op
    /\ apiResp'.status = status

\* The timestamps a record can carry.
Times == 0..(MaxApiReqs + 1)

\* The task stored under the id of the request this step serves, before and
\* after the step.
TaskBefore == LET oid == ObjectIDFromHex(apiReq'.id).oid
              IN  fromMongoTask(oid, tasks[oid])

TaskAfter == LET oid == ObjectIDFromHex(apiReq'.id).oid
             IN  fromMongoTask(oid, tasks'[oid])

\* C17: a PUT /api/v1/tasks/{id} answered 200 was for a stored task, changes
\* no other record, leaves every one of title, status, due date and
\* description the body does not carry as the stored task had it, never
\* changes the task's id, project id or created timestamp, and answers with
\* the task as it is stored afterwards; a body carrying only the status
\* IN_PROGRESS makes the task IN_PROGRESS.
C17_UpdateChangesOnlyPresentFields ==
    [][Answers("PUT /api/v1/tasks/{id}", StatusOK) =>
        LET body == apiReq'.body
            h == ObjectIDFromHex(apiReq'.id)
        IN  /\ ~h.err
            /\ h.oid \in DOMAIN tasks
            /\ DOMAIN tasks' = DOMAIN tasks
            /\ \A o \in DOMAIN tasks \ {h.oid} : tasks'[o] = tasks[o]
            /\ projects' = projects
            /\ ~Present(body, "title") => TaskAfter.Title = TaskBefore.Title
            /\ ~Present(body, "status") => TaskAfter.Status = TaskBefore.Status
            /\ ~Present(body, "due_date") => TaskAfter.DueDate = TaskBefore.DueDate
            /\ ~Present(body, "description") =>
                    TaskAfter.Description = TaskBefore.Description
            /\ TaskAfter.ID = apiReq'.id
            /\ TaskAfter.ProjectID = TaskBefore.ProjectID
            /\ TaskAfter.CreatedAt = TaskBefore.CreatedAt
            /\ \E u \in Times :
                apiResp'.body = <<EncodeTask([TaskAfter EXCEPT !.UpdatedAt = u])>>
            /\ body = Obj(<<Member("status", Str("IN_PROGRESS"))>>) =>
                    TaskAfter.Status = TaskStatusInProgress]_vars

\* A task created with a due date and a description has been moved to
\* IN_PROGRESS by a body carrying nothing but the status, answered 200.
C17_Witness ==
    /\ apiReq.op = "PUT /api/v1/tasks/{id}"
    /\ apiReq.body = Obj(<<Member("status", Str("IN_PROGRESS"))>>)
    /\ apiResp.status = StatusOK
    /\ \E oid \in DOMAIN tasks :
        /\ apiReq.id = Hex(oid)
        /\ tasks[oid].Status = TaskStatusInProgress
        /\ tasks[oid].Title = "T"
        /\ tasks[oid].DueDate = DueString
        /\ tasks[oid].Description = "d"
        /\ tasks[oid].CreatedAt # 0
        /\ tasks[oid].UpdatedAt > tasks[oid].CreatedAt

\* C18: while the store answers, POST /api/v1/projects with a non-empty name is
\* answered 201; a 201 answer describes a project stored under an identifier
\* no record had before, with a non-empty identifier, the name and
\* description of the request and non-zero created and updated timestamps;
\* and a GET of that identifier, with no update or delete of it in between,
\* is answered 200 with the same identifier, name and description.
C18_CreateThenGet ==
    [][/\ (/\ apiSeq' = apiSeq + 1
           /\ apiReq' = ApiRequestOf("POST /api/v1/projects", "",
                            Obj(<<Member("name", Str("X")),
                                  Member("description", Str("d"))>>))
           /\ dbUp')
          => apiResp'.status = StatusCreated
       /\ Answers("POST /api/v1/projects", StatusCreated) =>
            \E oid \in DOMAIN projects' \ (DOMAIN projects \cup DOMAIN tasks) :
                LET p == fromMongoProject(oid, projects'[oid])
                IN  /\ p.ID # ""
                    /\ p.Name = "X"
                    /\ p.Description = "d"
                    /\ p.CreatedAt # 0
                    /\ p.UpdatedAt # 0
                    /\ apiResp'.body = <<EncodeProject(p)>>
                    /\ lastCreated' = p
       /\ (/\ apiSeq' = apiSeq + 1
           /\ apiReq'.op = "GET /api/v1/projects/{id}"
           /\ lastCreated # NoProject
           /\ apiReq'.id = lastCreated.ID
           /\ dbUp')
          => /\ apiResp'.status = StatusOK
             /\ \E ca, ua \in Times :
                    apiResp'.body = <<EncodeProject([lastCreated EXCEPT
                                          !.CreatedAt = ca, !.UpdatedAt = ua])>>
      ]_vars

\* A project named X was created and the GET of its identifier has been
\* answered 200.
C18_Witness ==
    /\ apiReq.op = "GET /api/v1/projects/{id}"
    /\ lastCreated.Name = "X"
    /\ apiReq.id = lastCreated.ID
    /\ apiResp.status = StatusOK
    /\ apiResp.body = <<EncodeProject(lastCreated)>>

\* The project id of the request this step serves names a stored project.
ProjectInStore ==
    LET h == ObjectIDFromHex(apiReq'.id)
    IN  ~h.err /\ h.oid \in DOMAIN projects

\* C19: DELETE /api/v1/projects/{id} of an id that names no stored project is
\* answered 500 and changes no record; of a stored project it is answered
\* 204, while the store answers, and the project is gone: FindByID fails for
\* the id, a GET of an id that names no stored project is answered 404, and
\* no later insert brings the id back.
C19_DeleteMissingIs500 ==
    [][/\ (apiSeq' = apiSeq + 1 /\ apiReq'.op = "DELETE /api/v1/projects/{id}") =>
            /\ ~ProjectInStore =>
                /\ apiResp'.status = StatusInternalServerError
                /\ projects' = projects
                /\ tasks' = tasks
            /\ (ProjectInStore /\ dbUp') =>
                /\ apiResp'.status = StatusNoContent
                /\ ObjectIDFromHex(apiReq'.id).oid \notin DOMAIN projects'
                /\ DOMAIN projects' \subseteq DOMAIN projects
                /\ ProjectFindByID(projects', nextOid', apiReq'.id, TRUE).err
       /\ (/\ apiSeq' = apiSeq + 1
           /\ apiReq'.op = "GET /api/v1/projects/{id}"
           /\ ~ProjectInStore)
          => apiResp'.status = StatusNotFound
       /\ \A oid \in DOMAIN projects' \ DOMAIN projects : oid > nextOid
      ]_vars

\* One of two stored projects has been deleted with a 204 answer.
C19_Witness ==
    /\ apiReq.op = "DELETE /api/v1/projects/{id}"
    /\ apiResp.status = StatusNoContent
    /\ apiResp.body = <<>>
    /\ ~ObjectIDFromHex(apiReq.id).err
    /\ ObjectIDFromHex(apiReq.id).oid \notin DOMAIN projects
    /\ projects # EmptyMap

\* The names of the three task statuses.
StatusNames == {"TODO", "IN_PROGRESS", "DONE"}

\* A create or update request with a client input error: a body the decoder
\* rejects, a project name or task title that is empty (on create also when
\* it is missing), or a task status that is given and is none of the three
\* names.  An empty status counts as given on update, where the field is a
\* pointer, and as not given on create, where it is a plain string.
InputError(req) ==
    LET b == req.body
    IN  \/ /\ req.op \in {"POST /api/v1/projects", "PUT /api/v1/projects/{id}"}
           /\ \/ DecodeFails(b, CreateProjectFields)
              \/ Decoded(b.members, "name", Str("")).s = ""
        \/ /\ req.op = "POST /api/v1/projects/{id}/tasks"
           /\ \/ DecodeFails(b, CreateTaskFields)
              \/ Decoded(b.members, "title", Str("")).s = ""
              \/ Decoded(b.members, "status", Str("")).s \notin StatusNames \cup {""}
        \/ /\ req.op = "PUT /api/v1/tasks/{id}"
           /\ \/ DecodeFails(b, CreateTaskFields)
              \/ Decoded(b.members, "title", Str("T")).s = ""
              \/ Decoded(b.members, "status", Str("TODO")).s \notin StatusNames

\* This step serves a request with a client input error.
ServesInputError == apiSeq' = apiSeq + 1 /\ InputError(apiReq')

\* The step calls neither Insert nor Update and leaves every record alone.
NothingWritten ==
    /\ \A i \in DOMAIN apiCalls' : apiCalls'[i] \notin {"Insert", "Update"}
    /\ projects' = projects
    /\ tasks' = tasks
    /\ nextOid' = nextOid

\* The step is a PUT /api/v1/tasks/{id} with a body the decoder accepts for a
\* task the lookup does not find.
UpdateOfMissingTask ==
    LET h == ObjectIDFromHex(apiReq'.id)
    IN  /\ apiReq'.op = "PUT /api/v1/tasks/{id}"
        /\ ~DecodeFails(apiReq'.body, CreateTaskFields)
        /\ (h.err \/ h.oid \notin DOMAIN tasks \/ ~dbUp')

\* C20 as stated: while the store answers, every create or update request
\* with a client input error is answered 400 and writes nothing.
C20_InputErrorIs400 ==
    [][(ServesInputError /\ dbUp') =>
        (apiResp'.status = StatusBadRequest /\ NothingWritten)]_vars

\* C20: a create or update request with a client input error writes nothing;
\* it is answered 404 when it is a task update with a decodable body for a
\* task the lookup does not find, and 400 otherwise.
C20_InputErrorWritesNothing ==
    [][ServesInputError =>
        /\ NothingWritten
        /\ apiResp'.status =
              IF UpdateOfMissingTask THEN StatusNotFound ELSE StatusBadRequest
        /\ apiResp'.ctype = "application/json"]_vars

\* A stored task was sent a status that is none of the three names: answered
\* 400 after the lookup, with the task as it was.
C20_Witness ==
    /\ apiReq.op = "PUT /api/v1/tasks/{id}"
    /\ apiReq.body = Obj(<<Member("status", Str("done"))>>)
    /\ apiResp.status = StatusBadRequest
    /\ apiCalls = <<"FindByID">>
    /\ \E oid \in DOMAIN tasks :
        /\ apiReq.id = Hex(oid)
        /\ tasks[oid].Status = TaskStatusDone
        /\ tasks[oid].UpdatedAt = tasks[oid].CreatedAt

(***************************************************************************)
(* C27: when the handler RecoveryMiddleware wraps does not panic, the      *)
(* middleware writes nothing of its own: neither on the way in nor when    *)
(* the wrapped handler returns to it does the status, a header or the body *)
(* of the response change, so the client receives what the wrapped chain   *)
(* wrote, and no panic is logged; a panic is logged only by the step that  *)
(* recovers one.                                                           *)
(***************************************************************************)
C27_RecoveryTransparent ==
    [][/\ pc = "recovery" => (resp' = resp /\ panicLog' = panicLog)
       /\ (Completes /\ pc = "return") =>
            /\ stack = <<"recovery">>
            /\ resp' = resp
            /\ panicLog' = panicLog
       /\ pc # "panic" => panicLog' = panicLog]_vars

\* A request has come back through RecoveryMiddleware with the 404 of the
\* resource handler and the CORS header of an inner stage; no panic is logged.
C27_Witness ==
    /\ pc = "idle"
    /\ served = 1
    /\ panicLog = 0
    /\ InTrace("handler")
    /\ resp.status = StatusNotFound
    /\ resp.ctype = "application/json"
    /\ resp.body = <<ErrorJSON("Project not found")>>
    /\ resp.allowOrigin = <<AppOrigin>>

\* The values of entities.TaskStatus that have a name.
TaskStatuses == {TaskStatusTodo, TaskStatusInProgress, TaskStatusDone}

\* C28: after every request every stored task has a non-empty title and one
\* of the three statuses; a task stored by this step has the project id of
\* the request's path, the time of the request as created timestamp and, when
\* the body carried no status, the status TODO; and a task that stays in the
\* store keeps its project id and created timestamp.
C28_StoredTasksWellFormed ==
    [][/\ \A oid \in DOMAIN tasks' :
            /\ tasks'[oid].Title # ""
            /\ tasks'[oid].Status \in TaskStatuses
       /\ \A oid \in DOMAIN tasks' \ DOMAIN tasks :
            /\ apiReq'.op = "POST /api/v1/projects/{id}/tasks"
            /\ tasks'[oid].ProjectID = apiReq'.id
            /\ tasks'[oid].CreatedAt = TimeNow(apiSeq)
            /\ tasks'[oid].CreatedAt # 0
            /\ ~Present(apiReq'.body, "status") =>
                    tasks'[oid].Status = TaskStatusTodo
       /\ \A oid \in DOMAIN tasks' \cap DOMAIN tasks :
            /\ tasks'[oid].ProjectID = tasks[oid].ProjectID
            /\ tasks'[oid].CreatedAt = tasks[oid].CreatedAt]_vars

\* A task created without a status is stored as TODO under the project id
\* of its path, and another task has been deleted beside it.
C28_Witness ==
    /\ apiReq.op = "DELETE /api/v1/tasks/{id}"
    /\ apiResp.status = StatusNoContent
    /\ \E oid \in DOMAIN tasks :
        /\ tasks[oid].Title = "T"
        /\ tasks[oid].Status = TaskStatusTodo
        /\ tasks[oid].ProjectID = Hex(1)
        /\ tasks[oid].CreatedAt # 0
        /\ Hex(oid) # apiReq.id

\* The id of the project a successful POST or PUT of this step answered with.
AnsweredProjectID ==
    IF apiReq'.op = "POST /api/v1/projects" THEN lastCreated'.ID ELSE apiReq'.id

\* C29 as stated: the body of a 201 answer to POST /api/v1/projects and of a
\* 200 answer to PUT /api/v1/projects/{id} is the body a GET of the same id
\* answers with right after it: the same id, name, description, created
\* and updated timestamp.
C29_WriteAnswerEqualsGet ==
    [][(\/ Answers("POST /api/v1/projects", StatusCreated)
        \/ Answers("PUT /api/v1/projects/{id}", StatusOK))
       => apiResp'.body =
            ProjectHandlerGet(projects', tasks', nextOid', AnsweredProjectID,
                              TRUE).w.body]_vars

\* C30 as stated: the project id of every stored task names a stored project.
C30_TasksReferToStoredProjects ==
    \A oid \in DOMAIN tasks :
        LET h == ObjectIDFromHex(tasks[oid].ProjectID)
        IN  ~h.err /\ h.oid \in DOMAIN projects

\* C30: the handlers keep the reference a task was created with and check
\* nothing but its form.  While the store answers, a task with a title is
\* created under every project id that reads as an ObjectID, whether or not
\* a project is stored under it; a task stored by a step carries the project
\* id of the request's path, which reads as an ObjectID; and a DELETE of a
\* project leaves every task as it was, also those that refer to it.
C30_ReferenceKeptNotChecked ==
    [][/\ (/\ apiSeq' = apiSeq + 1
           /\ apiReq' = ApiRequestOf("POST /api/v1/projects/{id}/tasks", Hex(1),
                                     Obj(<<Member("title", Str("T"))>>))
           /\ dbUp')
          => /\ apiResp'.status = StatusCreated
             /\ DOMAIN tasks' # DOMAIN tasks
       /\ \A oid \in DOMAIN tasks' \ DOMAIN tasks :
            /\ tasks'[oid].ProjectID = apiReq'.id
            /\ ~ObjectIDFromHex(tasks'[oid].ProjectID).err
       /\ (apiSeq' = apiSeq + 1 /\ apiReq'.op = "DELETE /api/v1/projects/{id}")
          => tasks' = tasks]_vars

\* A project has been deleted with a 204 answer and a task that refers to it
\* is still stored.
C30_Witness ==
    /\ apiReq.op = "DELETE /api/v1/projects/{id}"
    /\ apiResp.status = StatusNoContent
    /\ ObjectIDFromHex(apiReq.id).oid \notin DOMAIN projects
    /\ \E oid \in DOMAIN tasks : tasks[oid].ProjectID = apiReq.id


(***************************************************************************)
(* The key function of validateToken and the key cache                     *)
(***************************************************************************)

\* The request carries a token for which jwt.Parse calls the key function
\* and the key function reaches the cache.
ReachesCache(h) ==
    /\ authCfg.Enabled
    /\ IsBearerJWT(h)
    /\ h[3].alg = "RS256"
    /\ h[3].kid.t = "string"

MaxGo == 2
MaxGoCalls == 3

Goroutines == 1..MaxGo

\* The number of calls the goroutines have made so far.
RECURSIVE CallsUpTo(_, _)
CallsUpTo(p, g) == IF g = 0 THEN 0 ELSE p[g].calls + CallsUpTo(p, g - 1)

Calls(p) == CallsUpTo(p, MaxGo)

NoCall == [pc |-> "idle", key |-> "", limiter |-> 0, exists |-> FALSE,
           missed |-> FALSE, calls |-> 0]

\* sync.RWMutex.RLock by goroutine g: granted unless a writer holds or
\* awaits the lock; otherwise the call waits until that writer unlocks.
RLockUnchecked(m, g) == [m EXCEPT !.readers = @ \cup {g}]

RLock(m, g) ==
    IF m.w = 0 THEN [m EXCEPT !.readers = @ \cup {g}]
    ELSE [m EXCEPT !.waiting = @ \cup {g}]

RUnlock(m, g) == [m EXCEPT !.readers = @ \ {g}]

\* sync.RWMutex.Lock by goroutine g, once no other writer holds or awaits
\* the lock: the lock is held at once when no read lock is out, otherwise
\* after the last of them is released.
Lock(m, g) == [m EXCEPT !.w = g, !.held = (m.readers = {})]

\* sync.RWMutex.Unlock: the RLock calls that waited are granted.
Unlock(m) == [w |-> 0, held |-> FALSE, readers |-> m.waiting, waiting |-> {}]

\* getLimiter, lines 173-175: return the limiter found under the read
\* lock, or go on to the write lock.
AfterLookupAlwaysLock(exists) == "lock"

AfterLookup(exists) == IF exists THEN "allow" ELSE "lock"

\* getLimiter, lines 182-185: the second look under the write lock.
AfterRecheckAlwaysCreate(exists) == "create"

AfterRecheck(exists) == IF exists THEN "unlock" ELSE "create"

InitLim ==
    /\ ApiIdle
    /\ AuthIdle
    /\ PipeIdle
    /\ rps = 1
    /\ burst = 1
    /\ limiters = EmptyMap
    /\ now = 0
    /\ log = <<>>
    /\ ipReq = NoRequest
    /\ ipOut = ""
    /\ procs = [g \in Goroutines |-> NoCall]
    /\ mu = Unlocked
    /\ heap = <<>>

LimFrame ==
    /\ UNCHANGED <<rps, burst, now, log>>
    /\ UNCHANGED ipVars
    /\ UNCHANGED authVars
    /\ UNCHANGED pipeVars
    /\ UNCHANGED apiVars

\* Middleware, lines 196-197: a request of client key ip arrives and its
\* goroutine calls getLimiter(ip).
LimCall(g, ip) ==
    /\ procs[g].pc = "idle"
    /\ Calls(procs) < MaxGoCalls
    /\ procs' = [procs EXCEPT ![g] = [NoCall EXCEPT !.pc = "rlock", !.key = ip,
                                                    !.calls = procs[g].calls + 1]]
    /\ UNCHANGED <<limiters, mu, heap>>
    /\ LimFrame

\* line 169: rl.mu.RLock()
LimRLock(g) ==
    /\ procs[g].pc = "rlock"
    /\ mu' = RLock(mu, g)
    /\ procs' = [procs EXCEPT ![g].pc = IF mu.w = 0 THEN "lookup" ELSE "rwait"]
    /\ UNCHANGED <<limiters, heap>>
    /\ LimFrame

\* line 170: limiter, exists := rl.limiters[ip]
LimLookup(g) ==
    /\ procs[g].pc = "lookup"
    /\ procs' = [procs EXCEPT
                   ![g].pc = "runlock",
                   ![g].exists = procs[g].key \in DOMAIN limiters,
                   ![g].limiter = IF procs[g].key \in DOMAIN limiters
                                  THEN limiters[procs[g].key] ELSE 0]
    /\ UNCHANGED <<limiters, mu, heap>>
    /\ LimFrame

\* lines 171-175: rl.mu.RUnlock(); if exists { return limiter }
LimRUnlock(g) ==
    /\ procs[g].pc = "runlock"
    /\ mu' = RUnlock(mu, g)
    /\ procs' = [procs EXCEPT ![g].pc = AfterLookup(procs[g].exists),
                              ![g].missed = ~procs[g].exists]
    /\ UNCHANGED <<limiters, heap>>
    /\ LimFrame

\* line 178: rl.mu.Lock(), as far as the lock's own writer mutex.
LimLock(g) ==
    /\ procs[g].pc = "lock"
    /\ mu.w = 0
    /\ mu' = Lock(mu, g)
    /\ procs' = [procs EXCEPT ![g].pc = IF mu.readers = {} THEN "recheck"
                                        ELSE "lwait"]
    /\ UNCHANGED <<limiters, heap>>
    /\ LimFrame

\* line 178: rl.mu.Lock() returns when the read locks have been released.
LimLockGranted(g) ==
    /\ procs[g].pc = "lwait"
    /\ mu.w = g
    /\ mu.readers = {}
    /\ mu' = [mu EXCEPT !.held = TRUE]
    /\ procs' = [procs EXCEPT ![g].pc = "recheck"]
    /\ UNCHANGED <<limiters, heap>>
    /\ LimFrame

\* lines 182-185: limiter, exists = rl.limiters[ip]; if exists { return limiter }
LimRecheck(g) ==
    /\ procs[g].pc = "recheck"
    /\ procs' = [procs EXCEPT
                   ![g].pc = AfterRecheck(procs[g].key \in DOMAIN limiters),
                   ![g].exists = procs[g].key \in DOMAIN limiters,
                   ![g].limiter = IF procs[g].key \in DOMAIN limiters
                                  THEN limiters[procs[g].key] ELSE 0]
    /\ UNCHANGED <<limiters, mu, heap>>
    /\ LimFrame

\* lines 187-188: limiter = rate.NewLimiter(...); rl.limiters[ip] = limiter
LimCreate(g) ==
    /\ procs[g].pc = "create"
    /\ heap' = Append(heap, [key |-> procs[g].key, by |-> g,
                             bucket |-> NewLimiter(rps, burst)])
    /\ limiters' = [k \in DOMAIN limiters \cup {procs[g].key} |->
                      IF k = procs[g].key THEN Len(heap) + 1 ELSE limiters[k]]
    /\ procs' = [procs EXCEPT ![g].pc = "unlock", ![g].limiter = Len(heap) + 1]
    /\ UNCHANGED mu
    /\ LimFrame

\* line 179: the deferred rl.mu.Unlock(), run when getLimiter returns.
LimUnlock(g) ==
    /\ procs[g].pc = "unlock"
    /\ mu' = Unlock(mu)
    /\ procs' = [h \in Goroutines |->
                   IF h = g THEN [procs[h] EXCEPT !.pc = "allow"]
                   ELSE IF h \in mu.waiting THEN [procs[h] EXCEPT !.pc = "lookup"]
                   ELSE procs[h]]
    /\ UNCHANGED <<limiters, heap>>
    /\ LimFrame

\* Middleware, lines 199-204: limiter.Allow() on the limiter getLimiter
\* returned, under that limiter's own mutex.
LimAllow(g) ==
    /\ procs[g].pc = "allow"
    /\ \E a \in {Allow(heap[procs[g].limiter].bucket, now)} :
          /\ heap' = [heap EXCEPT ![procs[g].limiter].bucket = a.lim]
          /\ procs' = [procs EXCEPT ![g] = [NoCall EXCEPT !.calls = procs[g].calls]]
    /\ UNCHANGED <<limiters, mu>>
    /\ LimFrame

NextLim ==
    \/ \E g \in Goroutines, ip \in ClientIPs : LimCall(g, ip)
    \/ \E g \in Goroutines : LimRLock(g)
    \/ \E g \in Goroutines : LimLookup(g)
    \/ \E g \in Goroutines : LimRUnlock(g)
    \/ \E g \in Goroutines : LimLock(g)
    \/ \E g \in Goroutines : LimLockGranted(g)
    \/ \E g \in Goroutines : LimRecheck(g)
    \/ \E g \in Goroutines : LimCreate(g)
    \/ \E g \in Goroutines : LimUnlock(g)
    \/ \E g \in Goroutines : LimAllow(g)

SpecLim == InitLim /\ [][NextLim]_vars


\* getLimiter of goroutine g has returned: the goroutine holds the limiter
\* it was given and is about to call Allow on it.
Returned(g) == procs[g].pc = "allow"

\* The limiters that have been allocated for key k.
AllocatedFor(k) == {a \in DOMAIN heap : heap[a].key = k}

(***************************************************************************)
(* C22: under any interleaving of concurrent getLimiter calls at most one  *)
(* limiter is ever allocated per client key, every call returns the        *)
(* limiter of its key that is in the map, and the map entry of a key,      *)
(* once there, is never replaced or removed.                               *)
(***************************************************************************)
C22_OneLimiterPerKey ==
    [][/\ \A k \in ClientIPs : Cardinality(AllocatedFor(k)') <= 1
       /\ \A g \in Goroutines :
             Returned(g)' =>
                /\ procs'[g].key \in DOMAIN limiters'
                /\ procs'[g].limiter = limiters'[procs'[g].key]
                /\ heap'[procs'[g].limiter].key = procs'[g].key
       /\ \A k \in DOMAIN limiters :
             /\ k \in DOMAIN limiters'
             /\ limiters'[k] = limiters[k]]_vars

\* Two first requests of one key ran side by side: both missed the key
\* under the read lock, one allocated the limiter, and both hold it.
C22_Witness ==
    \E g, h \in Goroutines :
        /\ g # h
        /\ Returned(g) /\ Returned(h)
        /\ procs[g].key = procs[h].key
        /\ procs[g].missed /\ procs[h].missed
        /\ procs[g].limiter = procs[h].limiter
        /\ heap[procs[g].limiter].by = g

\* Goroutine g is blocked in a call on rl.mu because of goroutine h: its
\* RLock waits for the writer h to unlock, or its Lock waits for the read
\* lock of h to be released.
BlockedBy(g, h) ==
    \/ procs[g].pc = "rwait" /\ mu.w = h
    \/ procs[g].pc = "lwait" /\ h \in mu.readers

RotationDocs ==
    { <<JWK("k1", "RSA", "sig", B64(ModulusA)), JWK("k2", "RSA", "sig", B64(ModulusB))>>,
      <<JWK("k1", "RSA", "sig", B64(ModulusB)), JWK("k2", "EC", "sig", B64(ModulusB))>> }

RotationAnswers ==
    { [reach |-> FALSE, status |-> 0, json |-> FALSE, doc |-> <<>>] }
    \cup { [reach |-> TRUE, status |-> 200, json |-> TRUE, doc |-> d] :
             d \in RotationDocs }

\* A goroutine's call: seen is the cache content a lookup read, fetched the
\* entries a refresh got, doc those it has not yet gone through, and before
\* the cache content when the refresh got the write lock.
NoCacheCall == [pc |-> "idle", kid |-> "", doc |-> <<>>, fetched |-> <<>>,
                before |-> EmptyMap, seen |-> EmptyMap, found |-> FALSE,
                calls |-> 0]

InitCache ==
    /\ ApiIdle
    /\ PipeIdle
    /\ authCfg = [Enabled |-> TRUE, Issuer |-> "iss1", JWKSURL |-> "http://idp/jwks"]
    /\ keys = EmptyMap
    /\ jwksServer = [reach |-> FALSE, status |-> 0, json |-> FALSE, doc |-> <<>>]
    /\ preload = FALSE
    /\ authSeq = 0
    /\ authReq = <<>>
    /\ authResp = NoResponse
    /\ failedOnce = FALSE
    /\ rps = 1
    /\ burst = 1
    /\ limiters = EmptyMap
    /\ now = 0
    /\ log = <<>>
    /\ ipReq = NoRequest
    /\ ipOut = ""
    /\ procs = [g \in Goroutines |-> NoCacheCall]
    /\ mu = Unlocked
    /\ heap = <<EmptyMap>>

CacheFrame ==
    /\ UNCHANGED <<authCfg, jwksServer, preload, authSeq, authReq, authResp,
                   failedOnce>>
    /\ UNCHANGED rlVars
    /\ UNCHANGED ipVars
    /\ UNCHANGED pipeVars
    /\ UNCHANGED apiVars

\* A goroutine calls m.jwksCache.getKey(kid).
CacheCallGetKey(g, kid) ==
    /\ procs[g].pc = "idle"
    /\ Calls(procs) < MaxGoCalls
    /\ procs' = [procs EXCEPT ![g] = [NoCacheCall EXCEPT
                                        !.pc = "rlock", !.kid = kid,
                                        !.calls = procs[g].calls + 1]]
    /\ UNCHANGED <<keys, mu, heap>>
    /\ CacheFrame

\* getKey, line 323: c.mu.RLock()
CacheRLock(g) ==
    /\ procs[g].pc = "rlock"
    /\ mu' = RLock(mu, g)
    /\ procs' = [procs EXCEPT ![g].pc = IF g \in mu'.readers THEN "lookup"
                                        ELSE "rwait"]
    /\ UNCHANGED <<keys, heap>>
    /\ CacheFrame

\* getKey, lines 326-331: key, ok := c.keys[kid]
CacheLookup(g) ==
    /\ procs[g].pc = "lookup"
    /\ procs' = [procs EXCEPT ![g].pc = "runlock",
                              ![g].found = ~getKey(keys, procs[g].kid).err,
                              ![g].seen = keys]
    /\ UNCHANGED <<keys, mu, heap>>
    /\ CacheFrame

\* getKey, line 324: the deferred c.mu.RUnlock()
CacheRUnlock(g) ==
    /\ procs[g].pc = "runlock"
    /\ mu' = RUnlock(mu, g)
    /\ procs' = [procs EXCEPT ![g] = [NoCacheCall EXCEPT !.calls = procs[g].calls]]
    /\ UNCHANGED <<keys, heap>>
    /\ CacheFrame

\* refreshJWKS, lines 265-292: fetch and decode the key set, before any
\* lock is taken; a failure returns at once.
CacheCallRefresh(g, server) ==
    /\ procs[g].pc = "idle"
    /\ Calls(procs) < MaxGoCalls
    /\ procs' = [procs EXCEPT ![g] =
                   [NoCacheCall EXCEPT
                      !.pc = IF refreshJWKS(EmptyMap, authCfg, server).err
                             THEN "idle" ELSE "lock",
                      !.doc = IF refreshJWKS(EmptyMap, authCfg, server).err
                              THEN <<>> ELSE server.doc,
                      !.fetched = IF refreshJWKS(EmptyMap, authCfg, server).err
                                  THEN <<>> ELSE server.doc,
                      !.calls = procs[g].calls + 1]]
    /\ UNCHANGED <<keys, mu, heap>>
    /\ CacheFrame

\* refreshJWKS, line 294: m.jwksCache.mu.Lock(), as far as the lock's own
\* writer mutex.
CacheLock(g) ==
    /\ procs[g].pc = "lock"
    /\ mu.w = 0
    /\ mu' = Lock(mu, g)
    /\ procs' = [procs EXCEPT ![g].pc = IF mu'.held THEN "store" ELSE "lwait",
                              ![g].before = keys]
    /\ UNCHANGED <<keys, heap>>
    /\ CacheFrame

\* line 294: Lock returns when the read locks have been released.
CacheLockGranted(g) ==
    /\ procs[g].pc = "lwait"
    /\ mu.w = g
    /\ mu.readers = {}
    /\ mu' = [mu EXCEPT !.held = TRUE]
    /\ procs' = [procs EXCEPT ![g].pc = "store", ![g].before = keys]
    /\ UNCHANGED <<keys, heap>>
    /\ CacheFrame

\* refreshJWKS, lines 297-311: one round of the loop over the fetched
\* entries, storing the entry into the cache in place or skipping it.
CacheStore(g) ==
    /\ procs[g].pc = "store"
    /\ procs[g].doc # <<>>
    /\ keys' = StoreKeys(keys, <<Head(procs[g].doc)>>)
    /\ procs' = [procs EXCEPT ![g].doc = Tail(procs[g].doc)]
    /\ UNCHANGED <<mu, heap>>
    /\ CacheFrame

\* refreshJWKS, lines 295 and 313: the loop is over; return nil runs the
\* deferred Unlock.
CacheUnlock(g) ==
    /\ procs[g].pc = "store"
    /\ procs[g].doc = <<>>
    /\ mu' = Unlock(mu)
    /\ heap' = IF \E a \in DOMAIN heap : heap[a] = keys THEN heap
               ELSE Append(heap, keys)
    /\ procs' = [h \in Goroutines |->
                   IF h = g THEN [NoCacheCall EXCEPT !.calls = procs[h].calls]
                   ELSE IF h \in mu.waiting THEN [procs[h] EXCEPT !.pc = "lookup"]
                   ELSE procs[h]]
    /\ UNCHANGED keys
    /\ CacheFrame

NextCache ==
    \/ \E g \in Goroutines, kid \in {"k1", "k2"} : CacheCallGetKey(g, kid)
    \/ \E g \in Goroutines : CacheRLock(g)
    \/ \E g \in Goroutines : CacheLookup(g)
    \/ \E g \in Goroutines : CacheRUnlock(g)
    \/ \E g \in Goroutines, server \in RotationAnswers : CacheCallRefresh(g, server)
    \/ \E g \in Goroutines : CacheLock(g)
    \/ \E g \in Goroutines : CacheLockGranted(g)
    \/ \E g \in Goroutines : CacheStore(g)
    \/ \E g \in Goroutines : CacheUnlock(g)

SpecCache == InitCache /\ [][NextCache]_vars


\* Goroutine g does the map lookup of getKey in this step.
Looks(g) == procs[g].pc = "lookup" /\ procs'[g].pc = "runlock"

\* Goroutine g leaves refreshJWKS in this step, the fetched keys stored.
RefreshEnds(g) == procs[g].pc = "store" /\ procs'[g].pc = "idle"

\* The cache contents that were there before a refresh or after one.
Published == {heap[a] : a \in DOMAIN heap}

(***************************************************************************)
(* C23: a getKey that runs side by side with refreshJWKS never reads a     *)
(* partially populated cache: what a lookup reads is the cache as it was   *)
(* before a refresh or as it is with all keys of that refresh stored, and  *)
(* a getKey never waits because of another getKey.                         *)
(***************************************************************************)
C23_NoPartialRead ==
    [][\A g \in Goroutines :
         /\ Looks(g) =>
               /\ keys \in Published
               /\ procs'[g].seen = keys
               /\ \A h \in Goroutines : procs[h].pc # "store"
         /\ RefreshEnds(g) =>
               /\ keys = StoreKeys(procs[g].before, procs[g].fetched)
               /\ keys \in Published'
         /\ procs'[g].pc = "rwait" =>
               /\ mu'.w # 0
               /\ procs'[mu'.w].pc \in {"lwait", "store"}]_vars

\* A lookup of k2 waits for its read lock while a refresh holds the write
\* lock and has stored k1 and not yet k2.
C23_Witness ==
    \E g, h \in Goroutines :
        /\ procs[g].pc = "rwait"
        /\ procs[g].kid = "k2"
        /\ procs[h].pc = "store"
        /\ Len(procs[h].doc) = 1
        /\ DOMAIN keys = {"k1"}
        /\ keys \notin Published


(***************************************************************************)
(* The resource handlers serving requests side by side.  net/http runs     *)
(* every request in a goroutine of its own; the handlers take no lock,     *)
(* and each repository method is one operation of the document store.      *)
(* Update handlers make two: FindByID, then Update.                        *)
(***************************************************************************)
StatusOnly == Obj(<<Member("status", Str("IN_PROGRESS"))>>)
TitleOnly == Obj(<<Member("title", Str("U"))>>)
NameOnly == Obj(<<Member("name", Str("Y"))>>)

\* The store holds one project and one task of it, created through the
\* handlers.
FirstProject ==
    ProjectHandlerCreate(EmptyMap, EmptyMap, 0,
        Obj(<<Member("name", Str("X")), Member("description", Str("d"))>>),
        TimeNow(0), TRUE)

FirstTask ==
    TaskHandlerCreateForProject(FirstProject.projects, FirstProject.tasks,
        FirstProject.oids, Hex(1), Obj(<<Member("title", Str("T"))>>),
        TimeNow(1), TRUE)

ConcRequests ==
    { ApiRequestOf(op, id, NotJSON) :
        op \in {"GET /api/v1/projects/{id}", "DELETE /api/v1/projects/{id}"},
        id \in {Hex(1), Hex(3)} }
    \cup { ApiRequestOf("PUT /api/v1/projects/{id}", id, NameOnly) :
             id \in {Hex(1), Hex(3)} }
    \cup { ApiRequestOf("DELETE /api/v1/tasks/{id}", id, NotJSON) :
             id \in {Hex(2), Hex(3)} }
    \cup { ApiRequestOf("PUT /api/v1/tasks/{id}", id, body) :
             id \in {Hex(2), Hex(3)}, body \in {StatusOnly, TitleOnly} }

NoServing == [pc |-> "idle", req |-> NoApiRequest, seen |-> EmptyMap,
              w |-> NoResp, repo |-> <<>>, calls |-> 0]

\* The handler of the request, with FindByID reading the collection seen.
HandlerSeeing(req, seen, ps, ts, oids, t) ==
    IF req.op = "GET /api/v1/projects/{id}"
    THEN ProjectHandlerGet(ps, ts, oids, req.id, TRUE)
    ELSE IF req.op = "DELETE /api/v1/projects/{id}"
    THEN ProjectHandlerDelete(ps, ts, oids, req.id, TRUE)
    ELSE IF req.op = "PUT /api/v1/projects/{id}"
    THEN ProjectHandlerUpdateSeeing(seen, ps, ts, oids, req.id, req.body, t, TRUE)
    ELSE IF req.op = "DELETE /api/v1/tasks/{id}"
    THEN TaskHandlerDelete(ps, ts, oids, req.id, TRUE)
    ELSE TaskHandlerUpdateSeeing(seen, ps, ts, oids, req.id, req.body, t, TRUE)

\* The collection the request's FindByID reads.
CollectionOf(req, ps, ts) ==
    IF req.op = "PUT /api/v1/tasks/{id}" THEN ts ELSE ps

InitConc ==
    /\ rps = 1 /\ burst = 1 /\ limiters = EmptyMap /\ now = 0 /\ log = <<>>
    /\ ipReq = NoRequest /\ ipOut = ""
    /\ AuthIdle
    /\ PipeIdle
    /\ projects = FirstTask.projects
    /\ tasks = FirstTask.tasks
    /\ nextOid = FirstTask.oids
    /\ dbUp = TRUE
    /\ apiReq = NoApiRequest
    /\ apiResp = NoResp
    /\ apiCalls = <<>>
    /\ apiSeq = 0
    /\ lastCreated = NoProject
    /\ procs = [g \in Goroutines |-> NoServing]
    /\ mu = Unlocked
    /\ heap = <<>>

ConcFrame ==
    /\ UNCHANGED <<dbUp, apiReq, apiResp, apiCalls, apiSeq, lastCreated>>
    /\ UNCHANGED <<mu, heap>>
    /\ UNCHANGED rlVars
    /\ UNCHANGED ipVars
    /\ UNCHANGED authVars
    /\ UNCHANGED pipeVars

\* A request arrives and net/http starts its goroutine.
ConcArrive(g, req) ==
    /\ Calls(procs) < MaxGoCalls
    /\ procs[g].pc \in {"idle", "done"}
    /\ procs' = [procs EXCEPT ![g] = [NoServing EXCEPT
                                        !.pc = "serve", !.req = req,
                                        !.calls = procs[g].calls + 1]]
    /\ UNCHANGED <<projects, tasks, nextOid>>
    /\ ConcFrame

\* The handler runs as far as its first repository call.  Get and Delete
\* are over with it; an update handler that found the record goes on to
\* Update with what FindByID returned.
ConcServe(g) ==
    /\ procs[g].pc = "serve"
    /\ \E out \in {HandlerSeeing(procs[g].req, CollectionOf(procs[g].req, projects, tasks),
                                 projects, tasks, nextOid, TimeNow(1 + Calls(procs)))} :
          IF Len(out.calls) = 2
          THEN /\ procs' = [procs EXCEPT
                              ![g].pc = "update",
                              ![g].seen = CollectionOf(procs[g].req, projects, tasks),
                              ![g].repo = <<"FindByID">>]
               /\ UNCHANGED <<projects, tasks, nextOid>>
          ELSE /\ procs' = [procs EXCEPT ![g].pc = "done", ![g].w = out.w,
                                         ![g].repo = out.calls]
               /\ projects' = out.projects
               /\ tasks' = out.tasks
               /\ nextOid' = out.oids
    /\ ConcFrame

\* The rest of an update handler: the repository's Update, on the store as
\* it is by now, and the response.
ConcUpdate(g) ==
    /\ procs[g].pc = "update"
    /\ \E out \in {HandlerSeeing(procs[g].req, procs[g].seen, projects, tasks,
                                 nextOid, TimeNow(1 + Calls(procs)))} :
          /\ procs' = [procs EXCEPT ![g].pc = "done", ![g].w = out.w,
                                    ![g].repo = out.calls,
                                    ![g].seen = EmptyMap]
          /\ projects' = out.projects
          /\ tasks' = out.tasks
          /\ nextOid' = out.oids
    /\ ConcFrame

NextConc ==
    \/ \E g \in Goroutines, req \in ConcRequests : ConcArrive(g, req)
    \/ \E g \in Goroutines : ConcServe(g)
    \/ \E g \in Goroutines : ConcUpdate(g)

SpecConc == InitConc /\ [][NextConc]_vars


\* The handler of goroutine g writes its response in this step.
Finishes(g) == procs[g].pc # "done" /\ procs'[g].pc = "done"

\* The store has no record under the id the request names.
Missing(req) ==
    \/ ObjectIDFromHex(req.id).err
    \/ ObjectIDFromHex(req.id).oid \notin DOMAIN CollectionOf(req, projects, tasks)

Called(g, method) == \E i \in DOMAIN procs[g].repo : procs[g].repo[i] = method

(***************************************************************************)
(* C21: a GET or PUT naming an id that is not in the store is answered     *)
(* 404, and for PUT the repository's Update is not called, in every        *)
(* interleaving with other requests, a DELETE of the same id included.     *)
(***************************************************************************)
C21_MissingIs404 ==
    [][\A g \in Goroutines :
         (/\ Finishes(g)
          /\ procs[g].req.op \in {"GET /api/v1/projects/{id}",
                                  "PUT /api/v1/projects/{id}",
                                  "PUT /api/v1/tasks/{id}"}
          /\ Missing(procs[g].req))
         => (/\ procs'[g].w.status = StatusNotFound
             /\ ~Called(g, "Update")')]_vars

\* Both requests are partial updates of the task, one of its status and one
\* of its title, and both have been answered 200.
BothUpdated(g, h) ==
    /\ procs[g].pc = "done" /\ procs[h].pc = "done"
    /\ procs[g].req = ApiRequestOf("PUT /api/v1/tasks/{id}", Hex(2), StatusOnly)
    /\ procs[h].req = ApiRequestOf("PUT /api/v1/tasks/{id}", Hex(2), TitleOnly)
    /\ procs[g].w.status = StatusOK
    /\ procs[h].w.status = StatusOK

(***************************************************************************)
(* C26: when two PUT /api/v1/tasks/{id} requests for one task, one         *)
(* carrying only a status and the other only a title, run side by side,    *)
(* the task stored after both carries both new values.                     *)
(***************************************************************************)
C26_NoLostUpdate ==
    \A g, h \in Goroutines :
        (BothUpdated(g, h) /\ 2 \in DOMAIN tasks)
        => (/\ tasks[2].Title = "U"
            /\ tasks[2].Status = TaskStatusInProgress)

====
